---- MODULE Spec2Model ----
(***************************************************************************)
(* zodaxios (src/src/index.ts): a fetch-based HTTP client with instance    *)
(* defaults, request/response interceptor registries and schema            *)
(* validation of the response body.                                        *)
(*                                                                         *)
(* JavaScript objects are modelled as functions whose DOMAIN is the set of *)
(* own keys, so that object spread, key presence and truthiness are what   *)
(* the code makes of them. Strings that the code inspects (urls) are       *)
(* sequences of one-character strings.                                     *)
(***************************************************************************)
EXTENDS Integers, Sequences, FiniteSets, TLC

\* ------------------------------------------------------------------ bounds

\* The slots of the request registry in SpecShare.
ShareSlots == 1

\* The slots of a registry in SpecLive.
LiveSlots == 2

\* The slots of a registry in SpecInst.
InstSlots == 1

\* The slots of a registry in SpecHooks.
HookSlots == 2

\* Instances: 1 is made by `create(defaults)`, 2 is the module's default export.
NumInst == 2
\* Call frames that can be in flight at once.
NumCalls == 2
\* Slots a registry may hold in the pipeline specification.
MaxSlots == 2
\* Slots a registry may hold in the registry-only specification.
RegMaxSlots == 4
\* Longest url drawn in the url-composition specification.
MaxUrlLen == 3

InstIds == 1..NumInst
CallIds == 1..NumCalls
Phases == {"request", "response"}

\* ----------------------------------------------------------------- objects

\* {}
EmptyObj == [k \in {} |-> TRUE]

\* { ...a, ...b }
Spread(a, b) ==
  [k \in DOMAIN a \cup DOMAIN b |-> IF k \in DOMAIN b THEN b[k] ELSE a[k]]

\* k in o, for the keys the code reads (none is ever set to undefined here)
Has(o, k) == k \in DOMAIN o

\* o with o[k] = v assigned in place
Assign(o, k, v) == Spread(o, [x \in {k} |-> v])

\* ------------------------------------------------------------ interceptors

NullSlot == [tag |-> "null", done |-> "none", error |-> "none", uid |-> 0]
\* An index below the array's length that was never assigned (a hole).
HoleSlot == [tag |-> "hole", done |-> "none", error |-> "none", uid |-> 0]

Handler(done, error, uid) ==
  [tag |-> "handler", done |-> done, error |-> error, uid |-> uid]

RECURSIVE Holes(_)
Holes(n) == IF n <= 0 THEN <<>> ELSE Append(Holes(n - 1), HoleSlot)

\* this.handlers.push({ done, error }): the array after the push
PushHandler(hs, h) == Append(hs, h)

\* this.handlers.push({ done, error }) - 1: the handle `use` returns
UseHandle(hs) == Len(PushHandler(hs, NullSlot)) - 1

\* A buggy eject that splices the slot out, shifting the later ones.
EjectSplice(hs, id) ==
  IF id >= 0 /\ id < Len(hs)
  THEN SubSeq(hs, 1, id) \o SubSeq(hs, id + 2, Len(hs))
  ELSE hs

\* A buggy eject that leaves the slot as it is.
EjectNothing(hs, id) == hs

\* this.handlers[id] = null, on the array hs (index id is hs[id + 1]).
\* An id at or past the length grows the array, leaving holes below id;
\* a negative id sets a property that is no array index.
EjectSlots(hs, id) ==
  IF id < 0 THEN hs
  ELSE IF id < Len(hs) THEN [hs EXCEPT ![id + 1] = NullSlot]
  ELSE Append(hs \o Holes(id - Len(hs)), NullSlot)

\* The indices (0-based) that hold a handler: what a dispatch's callback acts on.
Live(hs) == {k \in 0..(Len(hs) - 1) : hs[k + 1].tag = "handler"}

VARIABLES
  defaults,   \* defaults[i]: the object `create` closed over
  handlers,   \* handlers[i][p]: interceptors.<p>.handlers of instance i
  issued,     \* issued[i][p]: what each `use` returned, and for which handler
  ejected     \* ejected[i][p]: the ids `eject` was called with

regVars == <<defaults, handlers, issued, ejected>>

\* A `use` on one registry that all instances share.
UseShared(i, p, done, error, cap) ==
  /\ Len(handlers[i][p]) < cap
  /\ LET uid == Len(issued[i][p]) + 1 IN
     /\ handlers' = [j \in DOMAIN handlers |->
                       [handlers[j] EXCEPT ![p] = PushHandler(@, Handler(done, error, uid))]]
     /\ issued' = [issued EXCEPT ![i][p] =
                     Append(@, [handle |-> UseHandle(handlers[i][p]), uid |-> uid])]
  /\ UNCHANGED <<defaults, ejected>>

\* interceptors.<p>.use(done, error), while the registry holds fewer than cap slots
Use(i, p, done, error, cap) ==
  /\ Len(handlers[i][p]) < cap
  /\ LET uid == Len(issued[i][p]) + 1 IN
     /\ handlers' = [handlers EXCEPT ![i][p] = PushHandler(@, Handler(done, error, uid))]
     /\ issued' = [issued EXCEPT ![i][p] =
                     Append(@, [handle |-> UseHandle(handlers[i][p]), uid |-> uid])]
  /\ UNCHANGED <<defaults, ejected>>

\* interceptors.<p>.eject(id)
Eject(i, p, id) ==
  /\ handlers' = [handlers EXCEPT ![i][p] = EjectSlots(@, id)]
  /\ ejected' = [ejected EXCEPT ![i][p] = @ \cup {id}]
  /\ UNCHANGED <<defaults, issued>>

\* ------------------------------------------------------------------ strings

\* The characters `.` does not match in a regular expression without the s flag.
LineTerminators == {"\n"}

\* Whether .*\/\/ matches at index 0 of url: a `//` with no line terminator before it.
LookaheadMatches(url) ==
  \E j \in 1..(Len(url) - 1) :
    /\ url[j] = "/"
    /\ url[j + 1] = "/"
    /\ \A m \in 1..(j - 1) : url[m] \notin LineTerminators

\* String.prototype.replace's expansion of the replacement text: $$ is a `$` and
\* $& is the matched text; any other `$` of the alphabet used here stands for
\* itself (the patterns with a quote or a digit need a character it lacks).
RECURSIVE Substitution(_, _)
Substitution(repl, matched) ==
  IF repl = <<>> THEN <<>>
  ELSE IF Head(repl) = "$" /\ Len(repl) >= 2 /\ repl[2] \in {"$", "&"}
  THEN (IF repl[2] = "$" THEN <<"$">> ELSE matched)
       \o Substitution(SubSeq(repl, 3, Len(repl)), matched)
  ELSE <<Head(repl)>> \o Substitution(Tail(repl), matched)

\* url.replace(/^(?!.*\/\/)\/?/, baseURL + '/')
ReplaceBase(url, baseURL) ==
  IF LookaheadMatches(url) THEN url
  ELSE LET matched == IF url # <<>> /\ Head(url) = "/" THEN <<"/">> ELSE <<>>
           after == SubSeq(url, Len(matched) + 1, Len(url))
       IN Substitution(baseURL \o <<"/">>, matched) \o after

\* A test that finds no `?` in any url.
NoQueryEver(url) == TRUE

\* url.indexOf('?') === -1
NoQuery(url) == \A j \in 1..Len(url) : url[j] # "?"

\* The application/x-www-form-urlencoded serializer's encoding of one character.
FormEncode(ch) ==
  CASE ch = " " -> <<"+">>
    [] ch = "/" -> <<"%", "2", "F">>
    [] ch = "?" -> <<"%", "3", "F">>
    [] ch = "=" -> <<"%", "3", "D">>
    [] ch = "&" -> <<"%", "2", "6">>
    [] ch = "$" -> <<"%", "2", "4">>
    [] ch = "\n" -> <<"%", "0", "A">>
    [] OTHER -> <<ch>>

RECURSIVE FormEncodeAll(_)
FormEncodeAll(str) ==
  IF str = <<>> THEN <<>> ELSE FormEncode(Head(str)) \o FormEncodeAll(Tail(str))

\* '' + new URLSearchParams(params): params.pairs is the list of [name, value]
\* pairs, of a plain mapping's own keys or of a URLSearchParams.
RECURSIVE SerializeParams(_)
SerializeParams(pairs) ==
  IF pairs = <<>> THEN <<>>
  ELSE FormEncodeAll(Head(pairs)[1]) \o <<"=">> \o FormEncodeAll(Head(pairs)[2])
       \o (IF Len(pairs) > 1 THEN <<"&">> ELSE <<>>)
       \o SerializeParams(Tail(pairs))

\* ------------------------------------------------------------------- values

\* The value of a variable or field that holds undefined.
Undefined == "undefined"

\* An argument that is a string, an object, or not given.
StrArg(v) == [t |-> "string", v |-> v]
ObjArg(v) == [t |-> "object", v |-> v]
NoArg == [t |-> "undefined"]

\* throw new Error('Missing URL. Please see documentation on usage.')
MissingUrlError ==
  [name |-> "Error", message |-> "Missing URL. Please see documentation on usage."]

\* What config.url.indexOf throws when config.url is undefined.
UrlTypeError == [name |-> "TypeError", message |-> "config.url is undefined"]

\* What a throwing handler of slot k of a registry throws.
HandlerError(phase, k) == [name |-> "Error", message |-> "handler threw", by |-> <<phase, k>>]

\* What fetch rejects with when the transport itself fails.
TransportError == [name |-> "TypeError", message |-> "fetch failed"]

\* What a rejecting validator promise rejects with.
ValidatorFault == [name |-> "Error", message |-> "validator rejected"]

\* An error that wraps the validator's message in a new cause.
ZodaxiosErrorNewCause(message, config, data, cause) ==
  [name |-> "ZodaxiosError", message |-> message, config |-> config,
   data |-> data, cause |-> [name |-> "Error", message |-> message]]

\* new ZodaxiosError(message, config, data, cause)
ZodaxiosError(message, config, data, cause) ==
  [name |-> "ZodaxiosError", message |-> message, config |-> config,
   data |-> data, cause |-> cause]

\* The header a request interceptor of the tests adds.
TestHeader == [k \in {"X-Test"} |-> "zodaxios"]

\* What a response interceptor of the tests sets `data` to.
InterceptorData == "interceptor-data"

\* ---------------------------------------------------------------- handlers

\* handler.done(config) of a request interceptor: whether it throws, the config
\* object as it leaves it (a handler may assign to it in place), what it returns.
\* setHeader is the handler of the tests, which assigns a new map to
\* config.headers; putHeader adds the header to the map config.headers is
\* (config.headers['X-Test'] = 'zodaxios'; return config), which throws a
\* TypeError when there is none; setCredentials and clearUrl return a new
\* object with one key, { withCredentials: true } and { url: '' }.
RequestDone(kind, cfg) ==
  CASE kind = "setHeader" ->
         LET own == IF Has(cfg, "headers") THEN cfg.headers ELSE EmptyObj
             c1 == Assign(cfg, "headers", Spread(own, TestHeader))
         IN [thrown |-> FALSE, config |-> c1, result |-> c1]
    [] kind = "setCredentials" ->
         [thrown |-> FALSE, config |-> cfg, result |-> [withCredentials |-> TRUE]]
    [] kind = "clearUrl" ->
         [thrown |-> FALSE, config |-> cfg, result |-> [url |-> <<>>]]
    [] kind = "putHeader" ->
         IF Has(cfg, "headers")
         THEN LET c1 == Assign(cfg, "headers", Spread(cfg.headers, TestHeader))
              IN [thrown |-> FALSE, config |-> c1, result |-> c1]
         ELSE [thrown |-> TRUE, config |-> cfg, result |-> cfg]
    [] kind = "throw" -> [thrown |-> TRUE, config |-> cfg, result |-> cfg]
    [] OTHER -> [thrown |-> FALSE, config |-> cfg, result |-> cfg]

\* A dispatch in which a handler that returns its envelope loses the data.
ResponseDoneClearsData(kind, resp) ==
  CASE kind = "setData" ->
         [thrown |-> FALSE, response |-> [resp EXCEPT !.data = InterceptorData]]
    [] kind = "throw" -> [thrown |-> TRUE, response |-> resp]
    [] OTHER -> [thrown |-> FALSE, response |-> [resp EXCEPT !.data = Undefined]]

\* handler.done(response) of a response interceptor: whether it throws, and the
\* envelope it returns.
ResponseDone(kind, resp) ==
  CASE kind = "setData" ->
         [thrown |-> FALSE, response |-> [resp EXCEPT !.data = InterceptorData]]
    [] kind = "throw" -> [thrown |-> TRUE, response |-> resp]
    [] OTHER -> [thrown |-> FALSE, response |-> resp]

\* handler.error(...): whether the hook throws. A hook that returns, also one
\* that returns Promise.reject(error) as the README's does, has its value dropped.
ErrorHookThrows(kind) == kind = "throw"

\* A done handler that calls eject(id) on the registry it is in: the ids it
\* ejects. eject0 and eject1 are handlers such as
\* (x) => { registry.eject(0); return x }.
HandlerEjects(kind) ==
  IF kind = "eject0" THEN {0} ELSE IF kind = "eject1" THEN {1} ELSE {}

\* Lines 108-111 copy the keys of defaults, not what they hold: while a call
\* site gives no headers, config.headers is the very map defaults.headers is
\* (acc.shared), until a handler assigns another map to config.headers. A
\* handler that writes into the map config.headers is then writes into the
\* defaults of the instance.
AfterHeaders(acc, kind, out) ==
  IF kind = "setHeader" THEN [acc EXCEPT !.shared = FALSE]
  ELSE IF kind = "putHeader" /\ acc.shared /\ ~out.thrown
  THEN [acc EXCEPT !.defaults = Assign(@, "headers", out.config.headers)]
  ELSE acc

\* The dispatch's state once a handler of this kind has run: the array the
\* dispatch iterates is the registry's own, so what the handler ejects is null
\* in it at once.
AfterEjects(acc, kind) ==
  IF HandlerEjects(kind) = {} THEN acc
  ELSE LET id == CHOOSE x \in HandlerEjects(kind) : TRUE
       IN [acc EXCEPT !.live = EjectSlots(@, id), !.ejects = @ \cup {id}]

\* ---------------------------------------------------------------- pipeline

NoBody == [t |-> "undefined"]
NoArgs == [configOrUrl |-> NoArg, config |-> NoArg, method |-> Undefined, body |-> NoBody]
NotFetched == [called |-> FALSE]
NoRes == [received |-> FALSE]
NoResponse == [none |-> TRUE]
Pending == [state |-> "pending"]
Resolved(v) == [state |-> "resolved", value |-> v]
Rejected(v) == [state |-> "rejected", value |-> v]

\* Lines 101-106: the config object the two calling conventions come to.
NormalizeArgs(configOrUrl, config) ==
  IF configOrUrl.t = "string"
  THEN Assign(IF config.t = "object" THEN config.v ELSE EmptyObj, "url", configOrUrl.v)
  ELSE IF configOrUrl.t = "object" THEN configOrUrl.v ELSE EmptyObj

\* Lines 108-111: { ...defaults, ...config }
MergeDefaults(dflt, config) == Spread(dflt, config)

\* A check that takes only an absent url for a missing one.
MissingUrlAbsentOnly(config) == ~Has(config, "url")

\* Line 115: !config.url
MissingUrl(config) == ~Has(config, "url") \/ config.url = <<>>

\* A dispatch that calls the request interceptors and drops what they return.
RECURSIVE RequestPhaseDropsResult(_, _, _)
RequestPhaseDropsResult(hs, k, acc) ==
  IF k >= Len(hs) THEN acc
  ELSE IF hs[k + 1].tag # "handler" THEN RequestPhaseDropsResult(hs, k + 1, acc)
  ELSE RequestPhaseDropsResult(hs, k + 1,
         [acc EXCEPT !.trace = Append(acc.trace,
            [ev |-> "request.done", slot |-> k, uid |-> hs[k + 1].uid,
             kind |-> hs[k + 1].done, seen |-> acc.config])])

\* A dispatch that catches what a handler throws and goes on.
RECURSIVE RequestPhaseSwallows(_, _, _)
RequestPhaseSwallows(hs, k, acc) ==
  IF k >= Len(hs) THEN acc
  ELSE IF hs[k + 1].tag # "handler" THEN RequestPhaseSwallows(hs, k + 1, acc)
  ELSE LET out == RequestDone(hs[k + 1].done, acc.config)
           ran == Append(acc.trace, [ev |-> "request.done", slot |-> k,
                                     uid |-> hs[k + 1].uid, kind |-> hs[k + 1].done,
                                     seen |-> acc.config])
       IN RequestPhaseSwallows(hs, k + 1,
            [acc EXCEPT !.config = IF out.thrown THEN @ ELSE Spread(out.config, out.result),
                        !.trace = ran])

\* A dispatch that stops after the first handler it ran.
RECURSIVE RequestPhaseFirstOnly(_, _, _)
RequestPhaseFirstOnly(hs, k, acc) ==
  IF k >= Len(hs) THEN acc
  ELSE IF hs[k + 1].tag # "handler" THEN RequestPhaseFirstOnly(hs, k + 1, acc)
  ELSE LET out == RequestDone(hs[k + 1].done, acc.config)
           ran == Append(acc.trace, [ev |-> "request.done", slot |-> k,
                                     uid |-> hs[k + 1].uid, kind |-> hs[k + 1].done,
                                     seen |-> acc.config])
       IN IF out.thrown
          THEN [acc EXCEPT !.thrown = TRUE, !.error = HandlerError("request", k),
                           !.trace = ran]
          ELSE [acc EXCEPT !.config = Spread(out.config, out.result), !.trace = ran]

\* Lines 123-132: the request interceptors' dispatch, from index k (0-based) on.
\* hs is the array when `map` began, which fixes the indices `map` visits;
\* acc.live is the array as it is now, which `map` reads each slot from when it
\* reaches it. acc: the running config, whether a handler threw and what, the
\* events so far, the array and the ids the handlers ejected.
RECURSIVE RequestPhase(_, _, _)
RequestPhase(hs, k, acc) ==
  IF k >= Len(hs) THEN acc
  ELSE IF acc.live[k + 1].tag # "handler" THEN RequestPhase(hs, k + 1, acc)
  ELSE LET h == acc.live[k + 1]
           out == RequestDone(h.done, acc.config)
           ran == Append(acc.trace, [ev |-> "request.done", slot |-> k,
                                     uid |-> h.uid, kind |-> h.done,
                                     seen |-> acc.config])
           now == AfterHeaders(AfterEjects(acc, h.done), h.done, out)
       IN IF out.thrown
          THEN [now EXCEPT !.thrown = TRUE, !.error = HandlerError("request", k),
                           !.trace = ran]
          ELSE RequestPhase(hs, k + 1,
                 [now EXCEPT !.config = Spread(out.config, out.result), !.trace = ran])

\* Lines 134-139: the base url put before config.url.
ComposeBase(config) ==
  IF Has(config, "baseURL") /\ config.baseURL # <<>>
  THEN Assign(config, "url",
         ReplaceBase(IF Has(config, "url") THEN config.url ELSE <<>>, config.baseURL))
  ELSE config

\* Lines 141-145: the query string put after config.url; config.url.indexOf
\* throws when config.url is undefined.
AppendParams(config) ==
  IF ~Has(config, "params") THEN [thrown |-> FALSE, config |-> config]
  ELSE IF ~Has(config, "url") THEN [thrown |-> TRUE, config |-> config]
  ELSE [thrown |-> FALSE,
        config |-> Assign(config, "url",
                     config.url \o (IF NoQuery(config.url) THEN <<"?">> ELSE <<"&">>)
                                \o SerializeParams(config.params.pairs))]

\* JSON.stringify(body)
JsonText(v) == [t |-> "string", v |-> [json |-> v]]

\* Line 147: body && typeof body === 'object'
IsObjectBody(body) == body.t = "object"

\* Lines 147-150: the body handed to fetch.
SerializeBody(body) == IF IsObjectBody(body) THEN JsonText(body.v) ELSE body

\* Lines 119, 149: the headers the serialization sets.
BodyHeaders(body) ==
  IF IsObjectBody(body) THEN [k \in {"content-type"} |-> "application/json"]
  ELSE EmptyObj

\* Line 152: { ...config.headers, ...headers }
MergedHeaders(config, headers) ==
  Spread(IF Has(config, "headers") THEN config.headers ELSE EmptyObj, headers)

\* Lines 154-159: what fetch is called with.
FetchArgs(config, method, body) ==
  [called |-> TRUE,
   url |-> IF Has(config, "url") THEN config.url ELSE <<Undefined>>,
   method |-> method,
   body |-> SerializeBody(body),
   headers |-> MergedHeaders(config, BodyHeaders(body)),
   credentials |-> IF Has(config, "withCredentials") /\ config.withCredentials
                   THEN "include" ELSE Undefined]

\* Lines 101-159: the call up to its first await. A frame that rejects before
\* fetch keeps the config it had reached.
Begin(dflt, hs, configOrUrl, config, method, body) ==
  LET site == NormalizeArgs(configOrUrl, config)
      merged == MergeDefaults(dflt, site)
      rtype == IF Has(merged, "responseType") THEN merged.responseType ELSE "json"
      start == [config |-> merged, thrown |-> FALSE, error |-> EmptyObj, trace |-> <<>>,
                live |-> hs, ejects |-> {},
                shared |-> Has(dflt, "headers") /\ ~Has(site, "headers"),
                defaults |-> dflt]
      stop(cfg, err, acc) ==
        [pc |-> "rejected", config |-> cfg, responseType |-> rtype,
         fetched |-> NotFetched, settled |-> Rejected(err), trace |-> acc.trace,
         live |-> acc.live, ejects |-> acc.ejects, defaults |-> acc.defaults]
  IN IF MissingUrl(merged) THEN stop(merged, MissingUrlError, start)
     ELSE LET rp == RequestPhase(hs, 0, start)
          IN IF rp.thrown THEN stop(rp.config, rp.error, rp)
             ELSE LET built == AppendParams(ComposeBase(rp.config))
                  IN IF built.thrown THEN stop(built.config, UrlTypeError, rp)
                     ELSE [pc |-> "fetching", config |-> built.config,
                           responseType |-> rtype,
                           fetched |-> FetchArgs(built.config, method, body),
                           settled |-> Pending,
                           trace |-> Append(rp.trace, [ev |-> "fetch"]),
                           live |-> rp.live, ejects |-> rp.ejects,
                           defaults |-> rp.defaults]

\* A classification that ignores validateStatus.
StatusOkDefaultOnly(config, r) == r.ok

\* A classification that lets validateStatus add to what res.ok accepts.
StatusOkEither(config, r) ==
  r.ok \/ (Has(config, "validateStatus") /\ r.status \in config.validateStatus)

\* Lines 168-170: validateStatus when the config has one, else res.ok.
StatusOk(config, r) ==
  IF Has(config, "validateStatus") THEN r.status \in config.validateStatus ELSE r.ok

\* A failure path that calls no error hook.
ErrorHooksSkipped(hs, phase, k, acc) == acc

\* Lines 173-177 and 181-185: the error hooks' dispatch over one registry, from
\* index k on. acc: whether a hook threw and what, the events so far.
RECURSIVE ErrorHooks(_, _, _, _)
ErrorHooks(hs, phase, k, acc) ==
  IF k >= Len(hs) THEN acc
  ELSE IF hs[k + 1].tag # "handler" \/ hs[k + 1].error = "none"
  THEN ErrorHooks(hs, phase, k + 1, acc)
  ELSE LET ran == Append(acc.trace, [ev |-> "error", phase |-> phase, slot |-> k,
                                     uid |-> hs[k + 1].uid, kind |-> hs[k + 1].error,
                                     given |-> acc.given])
       IN IF ErrorHookThrows(hs[k + 1].error)
          THEN [acc EXCEPT !.thrown = TRUE, !.error = HandlerError(phase, k),
                           !.trace = ran]
          ELSE ErrorHooks(hs, phase, k + 1, [acc EXCEPT !.trace = ran])

\* Lines 161-166: the envelope built from the config and the transport's response.
EnvelopeOf(config, r) ==
  [config |-> config, headers |-> r.headers, status |-> r.status, data |-> Undefined]

\* A failure path that calls the request registry's error hooks first.
FailurePathRequestFirst(regs, r, envelope, tr) ==
  LET error == Rejected([response |-> envelope])
      a == ErrorHooks(regs.request, "request", 0,
                      [thrown |-> FALSE, error |-> EmptyObj, trace |-> tr, given |-> error])
  IN IF a.thrown THEN [settled |-> Rejected(a.error), trace |-> a.trace]
     ELSE LET b == ErrorHooks(regs.response, "response", 0, [a EXCEPT !.given = r])
          IN IF b.thrown THEN [settled |-> Rejected(b.error), trace |-> b.trace]
             ELSE [settled |-> error, trace |-> b.trace]

\* A failure path that reads the body into the envelope it rejects with.
FailurePathReadsBody(regs, r, envelope, tr) ==
  [settled |-> Rejected([response |-> [envelope EXCEPT !.data = "parsed-json"]]),
   trace |-> Append(tr, [ev |-> "body", reader |-> "json", read |-> TRUE,
                         value |-> "parsed-json"])]

\* Lines 172-188: the failure path. The response registry's error hooks, each
\* given res; the rejection { response }; the request registry's error hooks,
\* each given the rejection; a hook that throws ends the call with what it threw.
FailurePath(regs, r, envelope, tr) ==
  LET error == Rejected([response |-> envelope])
      a == ErrorHooks(regs.response, "response", 0,
                      [thrown |-> FALSE, error |-> EmptyObj, trace |-> tr, given |-> r])
  IN IF a.thrown THEN [settled |-> Rejected(a.error), trace |-> a.trace]
     ELSE LET b == ErrorHooks(regs.request, "request", 0, [a EXCEPT !.given = error])
          IN IF b.thrown THEN [settled |-> Rejected(b.error), trace |-> b.trace]
             ELSE [settled |-> error, trace |-> b.trace]

\* A dispatch that calls the response interceptors and drops what they return.
RECURSIVE ResponsePhaseDropsResult(_, _, _)
ResponsePhaseDropsResult(hs, k, acc) ==
  IF k >= Len(hs) THEN acc
  ELSE IF hs[k + 1].tag # "handler" THEN ResponsePhaseDropsResult(hs, k + 1, acc)
  ELSE ResponsePhaseDropsResult(hs, k + 1,
         [acc EXCEPT !.trace = Append(acc.trace,
            [ev |-> "response.done", slot |-> k, uid |-> hs[k + 1].uid,
             kind |-> hs[k + 1].done, seen |-> acc.response])])

\* A dispatch that iterates a copy of the array taken when it began.
RECURSIVE ResponsePhaseSnapshot(_, _, _)
ResponsePhaseSnapshot(hs, k, acc) ==
  IF k >= Len(hs) THEN acc
  ELSE IF hs[k + 1].tag # "handler" THEN ResponsePhaseSnapshot(hs, k + 1, acc)
  ELSE LET h == hs[k + 1]
           out == ResponseDone(h.done, acc.response)
           ran == Append(acc.trace, [ev |-> "response.done", slot |-> k,
                                     uid |-> h.uid, kind |-> h.done,
                                     seen |-> acc.response])
           now == AfterEjects(acc, h.done)
       IN IF out.thrown
          THEN [now EXCEPT !.thrown = TRUE, !.error = HandlerError("response", k),
                           !.trace = ran]
          ELSE ResponsePhaseSnapshot(hs, k + 1,
                 [now EXCEPT !.response = out.response, !.trace = ran])

\* Lines 194-198: the response interceptors' dispatch, from index k on. As in
\* the request dispatch, hs fixes the indices and acc.live is what is read.
RECURSIVE ResponsePhase(_, _, _)
ResponsePhase(hs, k, acc) ==
  IF k >= Len(hs) THEN acc
  ELSE IF acc.live[k + 1].tag # "handler" THEN ResponsePhase(hs, k + 1, acc)
  ELSE LET h == acc.live[k + 1]
           out == ResponseDone(h.done, acc.response)
           ran == Append(acc.trace, [ev |-> "response.done", slot |-> k,
                                     uid |-> h.uid, kind |-> h.done,
                                     seen |-> acc.response])
           now == AfterEjects(acc, h.done)
       IN IF out.thrown
          THEN [now EXCEPT !.thrown = TRUE, !.error = HandlerError("response", k),
                           !.trace = ran]
          ELSE ResponsePhase(hs, k + 1,
                 [now EXCEPT !.response = out.response, !.trace = ran])

\* Line 200: responseType === 'json' && config.schema
NeedsValidation(rtype, config) == rtype = "json" /\ Has(config, "schema")

\* ------------------------------------------------------------------- calls

VARIABLES
  pc,            \* pc[c]: idle, fetching, reading, validating, resolved, rejected
  inst,          \* inst[c]: the instance the call was made on
  args,          \* args[c]: the arguments of the call
  config,        \* config[c]: the local `config`
  responseType,  \* responseType[c]: the local `responseType`
  fetched,       \* fetched[c]: what fetch was called with, if it was
  res,           \* res[c]: the transport's response
  response,      \* response[c]: the local `response`
  settled,       \* settled[c]: what the call's promise settled with
  trace          \* trace[c]: the handlers and collaborators invoked, in order

callVars == <<pc, inst, args, config, responseType, fetched, res, response, settled, trace>>
vars == <<defaults, handlers, issued, ejected, pc, inst, args, config, responseType,
          fetched, res, response, settled, trace>>

\* The frame's config.headers is the map defaults.headers of instance i is: the
\* frame runs on i, its call site gave no headers and no handler has assigned
\* another map.
SharesHeaders(d, i) ==
  /\ pc[d] # "idle" /\ inst[d] = i
  /\ Has(config[d], "headers")
  /\ ~Has(NormalizeArgs(args[d].configOrUrl, args[d].config), "headers")
  /\ \A j \in 1..Len(trace[d]) :
       ~(trace[d][j].ev = "request.done" /\ trace[d][j].kind = "setHeader")

\* An envelope, or a settled promise, whose config is a frame's config object,
\* once that object's headers map holds h.
EnvelopeWith(env, h) ==
  IF Has(env, "config") THEN [env EXCEPT !.config = Assign(@, "headers", h)] ELSE env
SettledWith(p, h) ==
  IF p.state = "pending" THEN p
  ELSE IF Has(p.value, "response")
  THEN [p EXCEPT !.value.response = EnvelopeWith(@, h)]
  ELSE [p EXCEPT !.value = EnvelopeWith(@, h)]

\* zodaxios(configOrUrl, config, method, body) on instance i, in frame c.
\* Lines 97-159: the call up to its first await. The handlers it runs may
\* eject from the request registry and may write into the headers map of the
\* instance's defaults, which every frame that shares the map then sees.
Zodaxios(c, i, configOrUrl, cfg, method, body) ==
  /\ pc[c] = "idle"
  /\ LET b == Begin(defaults[i], handlers[i].request, configOrUrl, cfg, method, body)
         seen(d) == d # c /\ b.defaults # defaults[i] /\ SharesHeaders(d, i)
     IN
     /\ pc' = [pc EXCEPT ![c] = b.pc]
     /\ config' = [d \in CallIds |->
                     IF d = c THEN b.config
                     ELSE IF seen(d) THEN Assign(config[d], "headers", b.defaults.headers)
                     ELSE config[d]]
     /\ responseType' = [responseType EXCEPT ![c] = b.responseType]
     /\ fetched' = [fetched EXCEPT ![c] = b.fetched]
     /\ settled' = [d \in CallIds |->
                      IF d = c THEN b.settled
                      ELSE IF seen(d) THEN SettledWith(settled[d], b.defaults.headers)
                      ELSE settled[d]]
     /\ response' = [d \in CallIds |->
                       IF d = c THEN NoResponse
                       ELSE IF seen(d) THEN EnvelopeWith(response[d], b.defaults.headers)
                       ELSE response[d]]
     /\ trace' = [trace EXCEPT ![c] = b.trace]
     /\ defaults' = [defaults EXCEPT ![i] = b.defaults]
     /\ handlers' = [handlers EXCEPT ![i].request = b.live]
     /\ ejected' = [ejected EXCEPT ![i].request = @ \cup b.ejects]
  /\ inst' = [inst EXCEPT ![c] = i]
  /\ args' = [args EXCEPT ![c] = [configOrUrl |-> configOrUrl, config |-> cfg,
                                  method |-> method, body |-> body]]
  /\ res' = [res EXCEPT ![c] = NoRes]
  /\ UNCHANGED issued

\* Lines 219-220: zodaxios.get, zodaxios.delete
Bodyless(c, i, method, url, cfg) ==
  /\ method \in {"get", "delete"}
  /\ Zodaxios(c, i, url, cfg, method, NoBody)

\* Lines 221-223: zodaxios.post, zodaxios.patch, zodaxios.put
WithBody(c, i, method, url, data, cfg) ==
  /\ method \in {"post", "patch", "put"}
  /\ Zodaxios(c, i, url, cfg, method, data)

\* Lines 154-188: fetch's promise fulfils with a response of this status and
\* these headers; the call goes on to its next await or rejects.
FetchReturns(c, status, hdrs) ==
  /\ pc[c] = "fetching"
  /\ LET r == [received |-> TRUE, status |-> status, headers |-> hdrs,
               ok |-> status \in 200..299]
         envelope == EnvelopeOf(config[c], r)
     IN /\ res' = [res EXCEPT ![c] = r]
        /\ response' = [response EXCEPT ![c] = envelope]
        /\ IF StatusOk(config[c], r)
           THEN /\ pc' = [pc EXCEPT ![c] = "reading"]
                /\ UNCHANGED <<settled, trace>>
           ELSE LET f == FailurePath(handlers[inst[c]], r, envelope, trace[c]) IN
                /\ pc' = [pc EXCEPT ![c] = "rejected"]
                /\ settled' = [settled EXCEPT ![c] = f.settled]
                /\ trace' = [trace EXCEPT ![c] = f.trace]
  /\ UNCHANGED <<regVars, inst, args, config, responseType, fetched>>

\* Line 154: fetch's promise rejects (the transport itself failed).
FetchThrows(c) ==
  /\ pc[c] = "fetching"
  /\ pc' = [pc EXCEPT ![c] = "rejected"]
  /\ settled' = [settled EXCEPT ![c] = Rejected(TransportError)]
  /\ UNCHANGED <<regVars, inst, args, config, responseType, fetched, res, response, trace>>

\* A finish that resolves with the envelope as it was before validation.
FinishKeepData(resp, parsed) == resp

\* Line 212: response.data = parsed.data
Finish(resp, parsed) == [resp EXCEPT !.data = parsed.data]

\* Lines 190-215 up to the next await: the body reader has settled (read is
\* whether it fulfilled, value what it gave), the response interceptors run, and
\* the call resolves, rejects, or awaits the validator.
AfterBody(c, read, value) ==
  LET r0 == IF read THEN [response[c] EXCEPT !.data = value] ELSE response[c]
      t0 == Append(trace[c], [ev |-> "body", reader |-> responseType[c],
                              read |-> read, value |-> IF read THEN value ELSE Undefined])
      rp == ResponsePhase(handlers[inst[c]].response, 0,
                          [response |-> r0, thrown |-> FALSE, error |-> EmptyObj,
                           trace |-> t0, live |-> handlers[inst[c]].response,
                           ejects |-> {}])
  IN /\ response' = [response EXCEPT ![c] = rp.response]
     /\ handlers' = [handlers EXCEPT ![inst[c]].response = rp.live]
     /\ ejected' = [ejected EXCEPT ![inst[c]].response = @ \cup rp.ejects]
     /\ IF rp.thrown
        THEN /\ pc' = [pc EXCEPT ![c] = "rejected"]
             /\ settled' = [settled EXCEPT ![c] = Rejected(rp.error)]
             /\ trace' = [trace EXCEPT ![c] = rp.trace]
        ELSE IF NeedsValidation(responseType[c], config[c])
        THEN /\ pc' = [pc EXCEPT ![c] = "validating"]
             /\ trace' = [trace EXCEPT ![c] =
                            Append(rp.trace, [ev |-> "validate", data |-> rp.response.data])]
             /\ UNCHANGED settled
        ELSE /\ pc' = [pc EXCEPT ![c] = "resolved"]
             /\ settled' = [settled EXCEPT ![c] = Resolved(rp.response)]
             /\ trace' = [trace EXCEPT ![c] = rp.trace]
     /\ UNCHANGED <<defaults, issued, inst, args, config, responseType, fetched, res>>

\* Line 191: res[responseType]() fulfils with value.
BodyReturns(c, value) ==
  /\ pc[c] = "reading"
  /\ AfterBody(c, TRUE, value)

\* A body reader whose failure ends the call.
BodyFailsRejects(c) ==
  /\ pc[c] = "reading"
  /\ pc' = [pc EXCEPT ![c] = "rejected"]
  /\ settled' = [settled EXCEPT ![c] = Rejected([name |-> "SyntaxError",
                                                   message |-> "body reader failed"])]
  /\ trace' = [trace EXCEPT ![c] =
                 Append(@, [ev |-> "body", reader |-> responseType[c],
                            read |-> FALSE, value |-> Undefined])]
  /\ UNCHANGED <<regVars, inst, args, config, responseType, fetched, res, response>>

\* Lines 191-192: res[responseType]() rejects, and the catch swallows it.
BodyFails(c) ==
  /\ pc[c] = "reading"
  /\ AfterBody(c, FALSE, Undefined)

\* Lines 201-215: safeParseAsync fulfils with parsed.
ParseReturns(c, parsed) ==
  /\ pc[c] = "validating"
  /\ IF parsed.success
     THEN LET final == Finish(response[c], parsed) IN
          /\ pc' = [pc EXCEPT ![c] = "resolved"]
          /\ response' = [response EXCEPT ![c] = final]
          /\ settled' = [settled EXCEPT ![c] = Resolved(final)]
     ELSE /\ pc' = [pc EXCEPT ![c] = "rejected"]
          /\ settled' = [settled EXCEPT ![c] =
                           Rejected(ZodaxiosError(parsed.error.message, config[c],
                                                  response[c].data, parsed.error))]
          /\ UNCHANGED response
  /\ trace' = [trace EXCEPT ![c] = Append(@, [ev |-> "parsed", parsed |-> parsed])]
  /\ UNCHANGED <<regVars, inst, args, config, responseType, fetched, res>>

\* Line 201: safeParseAsync's promise rejects.
ParseThrows(c) ==
  /\ pc[c] = "validating"
  /\ pc' = [pc EXCEPT ![c] = "rejected"]
  /\ settled' = [settled EXCEPT ![c] = Rejected(ValidatorFault)]
  /\ UNCHANGED <<regVars, inst, args, config, responseType, fetched, res, response, trace>>

\* The caller has taken the settled promise's value: the frame is free again.
Forget(c) ==
  /\ pc[c] \in {"resolved", "rejected"}
  /\ pc' = [pc EXCEPT ![c] = "idle"]
  /\ inst' = [inst EXCEPT ![c] = 1]
  /\ args' = [args EXCEPT ![c] = NoArgs]
  /\ config' = [config EXCEPT ![c] = EmptyObj]
  /\ responseType' = [responseType EXCEPT ![c] = "json"]
  /\ fetched' = [fetched EXCEPT ![c] = NotFetched]
  /\ res' = [res EXCEPT ![c] = NoRes]
  /\ response' = [response EXCEPT ![c] = NoResponse]
  /\ settled' = [settled EXCEPT ![c] = Pending]
  /\ trace' = [trace EXCEPT ![c] = <<>>]
  /\ UNCHANGED regVars

\* No frame holds a settled promise its caller has not taken yet. A settled
\* frame is read by nothing but its caller, so a registry operation commutes
\* with Forget: the specifications take registry operations from these states.
NoneSettled == \A c \in CallIds : pc[c] \notin {"resolved", "rejected"}

\* interceptors.<p>.use and interceptors.<p>.eject leave the calls alone.
UseOn(i, p, done, error, cap) == Use(i, p, done, error, cap) /\ UNCHANGED callVars
EjectOn(i, p, id) == Eject(i, p, id) /\ UNCHANGED callVars

\* ------------------------------------------------------------------ inputs

\* The base url of the instance under test.
Base == <<"b">>

\* Header maps of the instance defaults and of a call-site config.
DefaultHeaders == [A |-> "default", B |-> "default"]
SiteHeaders == [B |-> "site"]

\* A plain { k: 'v' } given as params.
SiteParams == [kind |-> "record", pairs |-> << <<(<<"k">>), (<<"v">>)>> >>]

\* A URLSearchParams holding k=v and q=a/, given as params.
SearchParams ==
  [kind |-> "URLSearchParams",
   pairs |-> << <<(<<"k">>), (<<"v">>)>>, <<(<<"q">>), (<<"a", "/">>)>> >>]

\* The objects { k: v } for v in vals, and {}.
Opt(k, vals) == {EmptyObj} \cup {[x \in {k} |-> v] : v \in vals}

Bodies == {[t |-> "object", v |-> "payload"]}

\* What the transport may answer.
Statuses == {200, 404}
ResponseHeaders == {"response-headers"}

\* What the body reader may give for a response type.
BodyValues(rtype) == IF rtype = "json" THEN {"parsed-json"} ELSE {"raw-text"}

\* What the validator may answer for data: the data as it is, a coerced value,
\* or a failure.
ParseOutcomes(data) ==
  {[success |-> TRUE, data |-> d] : d \in {data, "typed"}}
  \cup {[success |-> FALSE,
         error |-> [name |-> "ZodError", message |-> "Expected number, received string"]]}

\* The pipeline specification: one instance with a base url and default headers,
\* interceptors of these kinds (<<done, error>>), calls with these arguments.
MainDefaults == {EmptyObj, [baseURL |-> Base, headers |-> DefaultHeaders]}
RequestHandlers == {<<"setHeader", "observe">>}
ResponseHandlers == {<<"setData", "none">>, <<"identity", "throw">>}
HandlersOf(p) == IF p = "request" THEN RequestHandlers ELSE ResponseHandlers
SiteUrl == <<"/", "a">>
SiteConfigs ==
  {Spread(s, o) :
     s \in Opt("schema", {"schema"}),
     o \in Opt("responseType", {"text"}) \cup Opt("validateStatus", {{404}})}
VerbConfigs == {[schema |-> "schema", headers |-> SiteHeaders]}
MainInst == {1}
MainCalls == {1}

\* -------------------------------------------------------------------- Spec

InitRegistries ==
  /\ handlers = [i \in InstIds |-> [request |-> <<>>, response |-> <<>>]]
  /\ issued = [i \in InstIds |-> [request |-> <<>>, response |-> <<>>]]
  /\ ejected = [i \in InstIds |-> [request |-> {}, response |-> {}]]

InitCalls ==
  /\ pc = [c \in CallIds |-> "idle"]
  /\ inst = [c \in CallIds |-> 1]
  /\ args = [c \in CallIds |-> NoArgs]
  /\ config = [c \in CallIds |-> EmptyObj]
  /\ responseType = [c \in CallIds |-> "json"]
  /\ fetched = [c \in CallIds |-> NotFetched]
  /\ res = [c \in CallIds |-> NoRes]
  /\ response = [c \in CallIds |-> NoResponse]
  /\ settled = [c \in CallIds |-> Pending]
  /\ trace = [c \in CallIds |-> <<>>]

\* Instance 1 as `create(d)` made it (lines 96, 225-228), next to the default
\* export `create()` of line 233.
Init ==
  /\ \E d \in MainDefaults : defaults = [i \in InstIds |-> IF i = 1 THEN d ELSE EmptyObj]
  /\ InitRegistries
  /\ InitCalls

\* The argument lists of the calls made: the url first and the config second,
\* the config alone, with and without a url, and the forms that leave the url
\* empty or absent.
SiteCalls == {<<StrArg(SiteUrl), ObjArg(cfg)>> : cfg \in SiteConfigs}
ConfigCalls == {<<ObjArg(Assign(cfg, "url", <<"a">>)), NoArg>> : cfg \in VerbConfigs}
EmptyUrlCalls == {<<ObjArg(Assign(cfg, "url", <<>>)), NoArg>> : cfg \in VerbConfigs}
NoUrlCalls == {<<ObjArg(cfg), ObjArg([url |-> <<"a">>])>> : cfg \in VerbConfigs}
EmptyStringCalls ==
  {<<StrArg(<<>>), ObjArg(Assign(cfg, "url", <<"a">>))>> : cfg \in VerbConfigs}
NoFirstCalls == {<<NoArg, ObjArg(Assign(cfg, "url", <<"a">>))>> : cfg \in VerbConfigs}
GetCalls == {<<StrArg(<<"/">>), ObjArg(cfg)>> : cfg \in VerbConfigs}
PostCalls == {<<StrArg(<<>>), b, NoArg>> : b \in Bodies}

Next ==
  \/ \E c \in MainCalls, i \in MainInst :
       \/ \E a \in SiteCalls : Zodaxios(c, i, a[1], a[2], Undefined, NoBody)
       \/ \E a \in ConfigCalls : Zodaxios(c, i, a[1], a[2], Undefined, NoBody)
       \/ \E a \in EmptyUrlCalls : Zodaxios(c, i, a[1], a[2], Undefined, NoBody)
       \/ \E a \in NoUrlCalls : Zodaxios(c, i, a[1], a[2], Undefined, NoBody)
       \/ \E a \in EmptyStringCalls : Zodaxios(c, i, a[1], a[2], Undefined, NoBody)
       \/ \E a \in NoFirstCalls : Zodaxios(c, i, a[1], a[2], Undefined, NoBody)
       \/ \E a \in GetCalls : Bodyless(c, i, "get", a[1], a[2])
       \/ \E a \in PostCalls : WithBody(c, i, "post", a[1], a[2], a[3])
       \/ \E st \in Statuses, h \in ResponseHeaders : FetchReturns(c, st, h)
       \/ FetchThrows(c)
       \/ \E v \in BodyValues(responseType[c]) : BodyReturns(c, v)
       \/ BodyFails(c)
       \/ /\ pc[c] = "validating"
          /\ \E parsed \in ParseOutcomes(response[c].data) : ParseReturns(c, parsed)
       \/ ParseThrows(c)
       \/ Forget(c)
  \/ \E i \in MainInst, p \in Phases :
       /\ NoneSettled
       /\ \/ \E h \in HandlersOf(p) : UseOn(i, p, h[1], h[2], MaxSlots)
          \/ \E id \in 0..(Len(handlers[i][p]) - 1) : EjectOn(i, p, id)

Spec == Init /\ [][Next]_vars

\* ----------------------------------------------------------------- SpecReg
\* One registry alone (the request registry of instance 1; both registries are
\* instances of the same class), `eject` given any id from -1 up.

NextReg ==
  \/ \E h \in HandlersOf("request") : UseOn(1, "request", h[1], h[2], RegMaxSlots)
  \/ \E id \in (-1)..(RegMaxSlots - 1) : EjectOn(1, "request", id)

SpecReg == Init /\ [][NextReg]_vars

\* ----------------------------------------------------------------- SpecUrl
\* Url composition: an instance with a base url, called once per frame with
\* every url of up to MaxUrlLen characters.

UrlChars == {"/", "a", "?", "\n"}

RECURSIVE StringsUpTo(_)
StringsUpTo(n) ==
  IF n = 0 THEN {<<>>}
  ELSE LET shorter == StringsUpTo(n - 1)
       IN shorter \cup {Append(str, ch) : str \in shorter, ch \in UrlChars}

UrlInputs == StringsUpTo(MaxUrlLen)
BaseUrls == {<<"b">>, <<"b", "/">>, <<"b", "$", "&">>}

InitUrl ==
  /\ \E b \in BaseUrls :
       defaults = [i \in InstIds |-> IF i = 1 THEN [baseURL |-> b] ELSE EmptyObj]
  /\ InitRegistries
  /\ InitCalls

\* The calls made: each url, with and without params.
UrlCalls ==
  {<<StrArg(u), ObjArg(cfg)>> :
     u \in UrlInputs, cfg \in Opt("params", {SiteParams, SearchParams})}

NextUrl ==
  \E c \in MainCalls :
    \/ \E a \in UrlCalls : Zodaxios(c, 1, a[1], a[2], Undefined, NoBody)
    \/ FetchThrows(c)
    \/ Forget(c)

SpecUrl == InitUrl /\ [][NextUrl]_vars

\* ---------------------------------------------------------------- SpecVerb
\* The five verb methods and the direct call with a `method` in its descriptor.

BodylessVerbs == {"get", "delete"}
BodyVerbs == {"post", "patch", "put"}
Methods == BodylessVerbs \cup BodyVerbs

\* The data a verb method is given: an object, a string, or nothing.
VerbData == {[t |-> "object", v |-> "payload"], [t |-> "string", v |-> "text"], NoBody}

\* zodaxios.get(url, config?), zodaxios.delete(url, config?)
BodylessCalls ==
  {<<m, StrArg(u), cfg>> :
     m \in BodylessVerbs, u \in {<<"a">>, <<"/", "a">>},
     cfg \in {NoArg, ObjArg([method |-> "post"])}}

\* zodaxios.post(url, data?, config?), zodaxios.patch, zodaxios.put
BodyCalls ==
  {<<m, StrArg(u), d, NoArg>> :
     m \in BodyVerbs, u \in {<<"a">>, <<"/", "a">>}, d \in VerbData}

\* zodaxios({ url, method }) and zodaxios(url, { method })
MethodCalls == {<<ObjArg([url |-> <<"a">>, method |-> m]), NoArg>> : m \in Methods}
UrlMethodCalls == {<<StrArg(<<"a">>), ObjArg([method |-> m])>> : m \in Methods}

NextVerb ==
  \E c \in MainCalls, i \in MainInst :
    \/ \E a \in BodylessCalls : Bodyless(c, i, a[1], a[2], a[3])
    \/ \E a \in BodyCalls : WithBody(c, i, a[1], a[2], a[3], a[4])
    \/ \E a \in MethodCalls : Zodaxios(c, i, a[1], a[2], Undefined, NoBody)
    \/ \E a \in UrlMethodCalls : Zodaxios(c, i, a[1], a[2], Undefined, NoBody)
    \/ FetchThrows(c)
    \/ Forget(c)

SpecVerb == Init /\ [][NextVerb]_vars

\* --------------------------------------------------------------- SpecHooks
\* Instance 1 with handlers of every kind in both registries: handlers that
\* return part of a descriptor, that empty the url, that throw, and error hooks
\* that return or throw.

HookRequestHandlers ==
  {<<"setHeader", "observe">>, <<"setCredentials", "none">>,
   <<"clearUrl", "none">>, <<"throw", "none">>}
HookResponseHandlers ==
  {<<"setData", "observe">>, <<"throw", "none">>, <<"identity", "throw">>}
HookHandlersOf(p) == IF p = "request" THEN HookRequestHandlers ELSE HookResponseHandlers

\* zodaxios('/a', {}) and zodaxios('/a', { schema })
HookCalls == {<<StrArg(SiteUrl), ObjArg(cfg)>> : cfg \in Opt("schema", {"schema"})}

NextHooks ==
  \/ \E c \in MainCalls, i \in MainInst :
       \/ \E a \in HookCalls : Zodaxios(c, i, a[1], a[2], Undefined, NoBody)
       \/ \E st \in Statuses, h \in ResponseHeaders : FetchReturns(c, st, h)
       \/ FetchThrows(c)
       \/ \E v \in BodyValues(responseType[c]) : BodyReturns(c, v)
       \/ BodyFails(c)
       \/ /\ pc[c] = "validating"
          /\ \E parsed \in ParseOutcomes(response[c].data) : ParseReturns(c, parsed)
       \/ ParseThrows(c)
       \/ Forget(c)
  \/ \E i \in MainInst, p \in Phases :
       /\ NoneSettled
       /\ \/ \E h \in HookHandlersOf(p) : UseOn(i, p, h[1], h[2], HookSlots)
          \/ \E id \in 0..(Len(handlers[i][p]) - 1) : EjectOn(i, p, id)

SpecHooks == Init /\ [][NextHooks]_vars

\* ---------------------------------------------------------------- SpecInst
\* Two instances, each with its own defaults: instance 1 made by `create(d)`,
\* instance 2 by a second `create`, of the module or of instance 1 (line 218:
\* it is the same function), with other defaults or none.

OtherBase == <<"c">>
OtherDefaults == {EmptyObj, [baseURL |-> OtherBase, headers |-> [C |-> "other"]]}

InitInst ==
  /\ \E d \in OtherDefaults :
       defaults = [i \in InstIds |->
                     IF i = 1 THEN [baseURL |-> Base, headers |-> DefaultHeaders] ELSE d]
  /\ InitRegistries
  /\ InitCalls

\* zodaxios('/a')
InstCalls == {<<StrArg(SiteUrl), NoArg>>}

NextInst ==
  \/ \E c \in MainCalls, i \in InstIds :
       \/ \E a \in InstCalls : Zodaxios(c, i, a[1], a[2], Undefined, NoBody)
       \/ \E st \in Statuses, h \in ResponseHeaders : FetchReturns(c, st, h)
       \/ \E v \in BodyValues(responseType[c]) : BodyReturns(c, v)
       \/ Forget(c)
  \/ \E i \in InstIds, p \in Phases :
       /\ NoneSettled
       /\ \/ \E h \in HandlersOf(p) : UseOn(i, p, h[1], h[2], InstSlots)
          \/ \E id \in 0..(Len(handlers[i][p]) - 1) : EjectOn(i, p, id)

SpecInst == InitInst /\ [][NextInst]_vars

\* -------------------------------------------------------------- SpecStatus
\* Calls with and without validateStatus, answered with statuses at and around
\* the edges of 200..299. A validateStatus is the set of statuses it returns
\* true for.

EdgeStatuses == {199, 200, 299, 300, 404}
Validators == {{404}, {200, 300}, {}}
StatusConfigs ==
  {Spread(s, o) : s \in Opt("schema", {"schema"}), o \in Opt("validateStatus", Validators)}
StatusCalls == {<<StrArg(SiteUrl), ObjArg(cfg)>> : cfg \in StatusConfigs}

NextStatus ==
  \E c \in CallIds, i \in MainInst :
    \/ \E a \in StatusCalls : Zodaxios(c, i, a[1], a[2], Undefined, NoBody)
    \/ \E st \in EdgeStatuses, h \in ResponseHeaders : FetchReturns(c, st, h)
    \/ \E v \in BodyValues(responseType[c]) : BodyReturns(c, v)
    \/ /\ pc[c] = "validating"
       /\ \E parsed \in ParseOutcomes(response[c].data) : ParseReturns(c, parsed)
    \/ Forget(c)

SpecStatus == Init /\ [][NextStatus]_vars

\* ---------------------------------------------------------------- SpecBody
\* zodaxios.post, patch and put with every sort of data, on descriptors that
\* set a content type of their own, under either spelling of the key, or none.

TextType == "text/plain"
TypedHeaders ==
  {[k \in {"content-type"} |-> TextType], [k \in {"Content-Type"} |-> TextType],
   [k \in {"accept"} |-> TextType]}

\* The data: an object, a string, a number, null, or nothing.
BodyData ==
  {[t |-> "object", v |-> "payload"], [t |-> "string", v |-> "text"],
   [t |-> "number", v |-> "0"], [t |-> "null"], NoBody}

BodyConfigs == {NoArg} \cup {ObjArg([headers |-> h]) : h \in TypedHeaders}
TypedCalls ==
  {<<m, StrArg(SiteUrl), d, cfg>> : m \in BodyVerbs, d \in BodyData, cfg \in BodyConfigs}

NextBody ==
  \E c \in MainCalls, i \in MainInst :
    \/ \E a \in TypedCalls : WithBody(c, i, a[1], a[2], a[3], a[4])
    \/ \E st \in Statuses, h \in ResponseHeaders : FetchReturns(c, st, h)
    \/ FetchThrows(c)
    \/ Forget(c)

SpecBody == Init /\ [][NextBody]_vars

\* ---------------------------------------------------------------- SpecLive
\* Two calls in flight on one instance whose handlers eject from the registry
\* they are in, next to `use` and `eject` from outside the calls.

LiveRequestHandlers == {<<"eject1", "none">>, <<"setHeader", "none">>}
LiveResponseHandlers == {<<"eject1", "none">>, <<"eject0", "none">>, <<"setData", "none">>}
LiveHandlersOf(p) == IF p = "request" THEN LiveRequestHandlers ELSE LiveResponseHandlers

\* zodaxios('/a')
LiveCalls == {<<StrArg(SiteUrl), NoArg>>}
OkStatuses == {200}

NextLive ==
  \/ \E c \in CallIds, i \in MainInst :
       \/ \E a \in LiveCalls : Zodaxios(c, i, a[1], a[2], Undefined, NoBody)
       \/ \E st \in OkStatuses, h \in ResponseHeaders : FetchReturns(c, st, h)
       \/ \E v \in BodyValues(responseType[c]) : BodyReturns(c, v)
       \/ Forget(c)
  \/ \E i \in MainInst, p \in Phases :
       /\ NoneSettled
       /\ \/ \E h \in LiveHandlersOf(p) : UseOn(i, p, h[1], h[2], LiveSlots)
          \/ \E id \in 0..(Len(handlers[i][p]) - 1) : EjectOn(i, p, id)

SpecLive == Init /\ [][NextLive]_vars

\* --------------------------------------------------------------- SpecShare
\* Two calls in flight on one instance, with and without headers of their own,
\* and request handlers that put a header into config.headers: one by assigning
\* a new map, one by writing into the map that is there.

ShareHandlers == {<<"putHeader", "none">>, <<"setHeader", "none">>}

\* zodaxios('/a') and zodaxios('/a', { headers })
ShareCalls == {<<StrArg(SiteUrl), cfg>> : cfg \in {NoArg, ObjArg([headers |-> SiteHeaders])}}

NextShare ==
  \/ \E c \in CallIds, i \in MainInst :
       \/ \E a \in ShareCalls : Zodaxios(c, i, a[1], a[2], Undefined, NoBody)
       \/ \E st \in Statuses, h \in ResponseHeaders : FetchReturns(c, st, h)
       \/ \E v \in BodyValues(responseType[c]) : BodyReturns(c, v)
       \/ Forget(c)
  \/ \E i \in MainInst :
       /\ NoneSettled
       /\ \/ \E h \in ShareHandlers : UseOn(i, "request", h[1], h[2], ShareSlots)
          \/ \E id \in 0..(Len(handlers[i].request) - 1) : EjectOn(i, "request", id)

SpecShare == Init /\ [][NextShare]_vars

\* ============================================================== properties

\* What the caller passed as the config object, whichever the calling convention.
CallSite(c) ==
  LET a == args[c]
  IN IF a.configOrUrl.t = "string"
     THEN (IF a.config.t = "object" THEN a.config.v ELSE EmptyObj)
     ELSE IF a.configOrUrl.t = "object" THEN a.configOrUrl.v ELSE EmptyObj

\* The call was given no url, or an empty one.
EmptyUrlCall(c) ==
  LET a == args[c].configOrUrl
  IN \/ a.t = "undefined"
     \/ a.t = "string" /\ a.v = <<>>
     \/ a.t = "object" /\ ("url" \notin DOMAIN a.v \/ a.v.url = <<>>)

\* The events of kind ev in a frame's trace.
Events(c, ev) == SelectSeq(trace[c], LAMBDA e : e.ev = ev)

\* The events a step adds to a frame's trace.
Added(c) ==
  IF Len(trace'[c]) > Len(trace[c])
  THEN SubSeq(trace'[c], Len(trace[c]) + 1, Len(trace'[c]))
  ELSE <<>>

\* The registry an event's handler belongs to.
PhaseOf(e) ==
  IF e.ev = "request.done" THEN "request"
  ELSE IF e.ev = "response.done" THEN "response"
  ELSE IF e.ev = "error" THEN e.phase ELSE "none"

\* The uids of the handlers registered in a registry and never ejected, from
\* what `use` returned and what `eject` was given.
Standing(i, p) ==
  {issued[i][p][n].uid : n \in {m \in 1..Len(issued[i][p]) :
                                  issued[i][p][m].handle \notin ejected[i][p]}}

\* cfg is the descriptor the call resolved to: the url fetch was given, the
\* call-site keys over the instance defaults, and the header a request
\* interceptor added.
IsResolved(c, cfg) ==
  LET site == CallSite(c)
      dflt == defaults[inst[c]]
      own == IF "headers" \in DOMAIN site THEN site
             ELSE IF "headers" \in DOMAIN dflt THEN dflt ELSE EmptyObj
      added == \E j \in 1..Len(trace[c]) :
                 trace[c][j].ev = "request.done" /\ trace[c][j].kind = "setHeader"
  IN /\ fetched[c].called
     /\ "url" \in DOMAIN cfg /\ cfg.url = fetched[c].url
     /\ \A k \in DOMAIN site \ {"url", "headers"} : k \in DOMAIN cfg /\ cfg[k] = site[k]
     /\ \A k \in DOMAIN dflt \ (DOMAIN site \cup {"url", "headers"}) :
          k \in DOMAIN cfg /\ cfg[k] = dflt[k]
     /\ DOMAIN cfg \ {"url", "headers"} \subseteq DOMAIN site \cup DOMAIN dflt
     /\ IF added
        THEN /\ "headers" \in DOMAIN cfg
             /\ cfg.headers =
                  Spread(IF "headers" \in DOMAIN own THEN own.headers ELSE EmptyObj,
                         [k \in {"X-Test"} |-> "zodaxios"])
        ELSE IF "headers" \in DOMAIN own
        THEN "headers" \in DOMAIN cfg /\ cfg.headers = own.headers
        ELSE "headers" \notin DOMAIN cfg

\* C1: a call whose url is empty or absent rejects with the 'Missing URL' error,
\* fetch is never called for it and no interceptor of either registry runs.
C1_MissingUrlRejects ==
  \A c \in CallIds :
    (pc[c] # "idle" /\ EmptyUrlCall(c)) =>
      /\ pc[c] = "rejected"
      /\ settled[c].state = "rejected"
      /\ settled[c].value.name = "Error"
      /\ settled[c].value.message = "Missing URL. Please see documentation on usage."
      /\ ~fetched[c].called
      /\ trace[c] = <<>>

\* An empty url given as a string, over a config that names a url, on an
\* instance with a base url and with live interceptors in both registries.
C1_Witness ==
  \E c \in CallIds :
    /\ pc[c] = "rejected" /\ EmptyUrlCall(c)
    /\ args[c].configOrUrl.t = "string"
    /\ "url" \in DOMAIN CallSite(c)
    /\ "baseURL" \in DOMAIN defaults[inst[c]]
    /\ Live(handlers[inst[c]].request) # {}
    /\ Live(handlers[inst[c]].response) # {}

\* The transport answered and the status fails classification: validateStatus
\* refuses it when the call has one, else it is outside 200..299.
ClassifiedFailure(c) ==
  /\ res[c].received
  /\ IF "validateStatus" \in DOMAIN CallSite(c)
     THEN res[c].status \notin CallSite(c).validateStatus
     ELSE res[c].status \notin 200..299

\* An error hook of the call threw.
HookThrew(c) ==
  \E j \in 1..Len(trace[c]) : trace[c][j].ev = "error" /\ trace[c][j].kind = "throw"

\* The rejection is { response } with the transport's status and headers and the
\* resolved descriptor.
StatusRejection(c) ==
  /\ settled[c].state = "rejected"
  /\ DOMAIN settled[c].value = {"response"}
  /\ LET env == settled[c].value.response
     IN /\ env.status = res[c].status
        /\ env.headers = res[c].headers
        /\ IsResolved(c, env.config)

\* C2 as stated: every response that fails classification makes the call reject
\* with the status rejection.
C2_AsStated ==
  \A c \in CallIds : ClassifiedFailure(c) => StatusRejection(c)

\* C2 as amended: a response that fails classification makes the call reject;
\* with the status rejection when no error hook throws, and with what the hook
\* threw (a value with no `response`) when one does.
C2_StatusRejection ==
  \A c \in CallIds :
    ClassifiedFailure(c) =>
      /\ pc[c] = "rejected"
      /\ IF HookThrew(c)
         THEN /\ settled[c].state = "rejected"
              /\ "response" \notin DOMAIN settled[c].value
              /\ settled[c].value.message = "handler threw"
         ELSE StatusRejection(c)

\* A 404 on a call whose url was composed with the base url, after a request
\* interceptor changed the config, with an error hook that ran and returned.
C2_Witness ==
  \E c \in CallIds :
    /\ ClassifiedFailure(c) /\ ~HookThrew(c)
    /\ res[c].status = 404
    /\ Events(c, "error") # <<>>
    /\ Events(c, "request.done") # <<>>
    /\ "baseURL" \in DOMAIN defaults[inst[c]]
    /\ StatusRejection(c)

\* The validator's answer, once it gave one, and the data it was handed.
Answered(c) == trace[c] # <<>> /\ trace[c][Len(trace[c])].ev = "parsed"
Answer(c) == trace[c][Len(trace[c])].parsed
Validated(c) == trace[c][Len(trace[c]) - 1].data

\* C3: when the validator answers with a failure the call rejects with a
\* ZodaxiosError carrying the failure's message, the resolved descriptor, the
\* data the validator was handed and the failure as cause; the rejection has no
\* `response` and the call does not resolve.
C3_SchemaFailureRejects ==
  \A c \in CallIds :
    (Answered(c) /\ ~Answer(c).success) =>
      /\ pc[c] = "rejected"
      /\ settled[c].state = "rejected"
      /\ settled[c].value.name = "ZodaxiosError"
      /\ settled[c].value.message = Answer(c).error.message
      /\ IsResolved(c, settled[c].value.config)
      /\ settled[c].value.data = Validated(c)
      /\ settled[c].value.cause = Answer(c).error
      /\ "response" \notin DOMAIN settled[c].value

\* A 200 json response with a schema, the data replaced by a response
\* interceptor, refused by the validator.
C3_Witness ==
  \E c \in CallIds :
    /\ Answered(c) /\ ~Answer(c).success
    /\ res[c].status = 200 /\ responseType[c] = "json"
    /\ "schema" \in DOMAIN CallSite(c)
    /\ Validated(c) = InterceptorData
    /\ settled[c].state = "rejected"

\* C4: when the validator answers with a success the call resolves with an
\* envelope whose data is the validator's value and whose status and headers
\* are the transport's.
C4_SchemaSuccessResolves ==
  \A c \in CallIds :
    (Answered(c) /\ Answer(c).success) =>
      /\ pc[c] = "resolved"
      /\ settled[c].state = "resolved"
      /\ settled[c].value.data = Answer(c).data
      /\ settled[c].value.status = res[c].status
      /\ settled[c].value.headers = res[c].headers

\* The validator coerced the data: what the call resolves with is its value, not
\* what it was handed.
C4_Witness ==
  \E c \in CallIds :
    /\ Answered(c) /\ Answer(c).success
    /\ Answer(c).data # Validated(c)
    /\ res[c].status = 200 /\ responseType[c] = "json"
    /\ "schema" \in DOMAIN CallSite(c)
    /\ settled[c].state = "resolved" /\ settled[c].value.data = "typed"

\* The uids of the events of kind ev among those a step adds to a frame's trace.
AddedUids(c, ev) ==
  {Added(c)[j].uid : j \in {n \in 1..Len(Added(c)) : Added(c)[n].ev = ev}}

\* No handler runs through an ejected handle, and the handler that runs through
\* a handle is the one `use` returned that handle for.
OnlyStandingRun ==
  \A c \in CallIds : \A j \in 1..Len(Added(c)) :
    LET e == Added(c)[j]
    IN PhaseOf(e) # "none" =>
         /\ e.slot \notin ejected[inst'[c]][PhaseOf(e)]
         /\ \E n \in 1..Len(issued[inst'[c]][PhaseOf(e)]) :
              issued[inst'[c]][PhaseOf(e)][n] = [handle |-> e.slot, uid |-> e.uid]

\* An eject of a handle that was ejected before changes nothing.
SecondEjectNoOp ==
  (issued' = issued /\ ejected' = ejected /\ UNCHANGED callVars) => handlers' = handlers

\* A dispatch of a registry runs every handler that was registered and not
\* ejected.
AllStandingRun ==
  \A c \in CallIds :
    /\ (pc[c] = "idle" /\ pc'[c] = "fetching") =>
         AddedUids(c, "request.done") = Standing(inst'[c], "request")
    /\ (pc[c] = "reading" /\ pc'[c] \in {"validating", "resolved"}) =>
         AddedUids(c, "response.done") = Standing(inst[c], "response")

\* C5: after eject(h) the handler registered under h is invoked by no call that
\* dispatches the registry; a second eject(h) changes nothing; every other
\* registered, non-ejected handler keeps being invoked.
C5_EjectStopsHandler ==
  [][OnlyStandingRun /\ SecondEjectNoOp /\ AllStandingRun]_vars

\* Two request handlers were registered, the first was ejected, and a call
\* made afterwards ran the second and not the first.
C5_Witness ==
  \E c \in CallIds :
    /\ pc[c] = "fetching"
    /\ Len(issued[inst[c]].request) = 2
    /\ ejected[inst[c]].request = {0}
    /\ Len(Events(c, "request.done")) = 1
    /\ Events(c, "request.done")[1].slot = 1

\* Handles are pairwise distinct and every handler that was not ejected sits at
\* the index `use` returned for it.
HandlesStable ==
  \A i \in InstIds, p \in Phases :
    LET is == issued[i][p]
        hs == handlers[i][p]
    IN /\ \A m, n \in 1..Len(is) : m # n => is[m].handle # is[n].handle
       /\ \A n \in 1..Len(is) :
            is[n].handle \notin ejected[i][p] =>
              /\ is[n].handle >= 0 /\ is[n].handle < Len(hs)
              /\ hs[is[n].handle + 1].tag = "handler"
              /\ hs[is[n].handle + 1].uid = is[n].uid

\* A step changes no slot but the one eject was given, and removes none.
OtherSlotsKept ==
  \A i \in InstIds, p \in Phases :
    /\ Len(handlers'[i][p]) >= Len(handlers[i][p])
    /\ \A k \in 1..Len(handlers[i][p]) :
         handlers'[i][p][k] # handlers[i][p][k] =>
           /\ handlers'[i][p][k] = NullSlot
           /\ (k - 1) \in ejected'[i][p] \ ejected[i][p]

\* C6: after any sequence of use and eject (eject with any integer), each
\* handle `use` returned is distinct from every earlier one, each non-ejected
\* handler sits at the index `use` returned for it, and eject never moves,
\* removes or re-indexes another slot.
C6_HandlesStable == []HandlesStable /\ [][OtherSlotsKept]_vars

\* An eject beyond the end left a hole, an eject of -1 and of an issued handle
\* happened, and a handler registered after them sits at its own index.
C6_Witness ==
  \E p \in Phases :
    LET is == issued[1][p]
    IN /\ -1 \in ejected[1][p]
       /\ \E k \in 1..Len(handlers[1][p]) : handlers[1][p][k] = HoleSlot
       /\ \E m, n \in 1..Len(is) :
            /\ m < n
            /\ is[m].handle \in ejected[1][p]
            /\ is[n].handle \notin ejected[1][p]
            /\ handlers[1][p][is[n].handle + 1].uid = is[n].uid

\* The data a response handler leaves, given the event of its run.
LeftBy(e) == IF e.kind = "setData" THEN InterceptorData ELSE e.seen.data

\* The step that follows the body: the body is read first, then the standing
\* response handlers run in registration order, each on what the one before
\* left, and what the last one left is validated, or returned when no
\* validation applies.
SuccessStages(c) ==
  (pc[c] = "reading" /\ pc'[c] \in {"validating", "resolved"}) =>
    LET new == Added(c)
        k == Cardinality(Standing(inst[c], "response"))
        left == IF k = 0 THEN new[1].value ELSE LeftBy(new[k + 1])
    IN /\ Len(new) >= k + 1
       /\ new[1].ev = "body"
       /\ \A j \in 2..(k + 1) :
            /\ new[j].ev = "response.done"
            /\ new[j].uid \in Standing(inst[c], "response")
            /\ j > 2 => (new[j - 1].slot < new[j].slot /\ new[j - 1].uid < new[j].uid)
            /\ new[j].seen.data = IF j = 2 THEN new[1].value ELSE LeftBy(new[j - 1])
       /\ IF pc'[c] = "validating"
          THEN /\ Len(new) = k + 2
               /\ new[k + 2].ev = "validate"
               /\ new[k + 2].data = left
          ELSE /\ Len(new) = k + 1
               /\ settled'[c].value.data = left

\* C7: on the success path the body is deserialized, then every non-ejected
\* response handler runs in registration order, then the schema validates; the
\* validator receives the data as the last response handler left it.
C7_SuccessPathOrder == [][\A c \in CallIds : SuccessStages(c)]_vars

\* Two response handlers ran after the body, the first replaced the data, and
\* the validator was handed the replacement.
C7_Witness ==
  \E c \in CallIds :
    /\ pc[c] = "validating"
    /\ Len(Events(c, "response.done")) = 2
    /\ Events(c, "response.done")[1].kind = "setData"
    /\ Events(c, "body")[1].value # InterceptorData
    /\ Events(c, "validate")[1].data = InterceptorData

\* C8: the config of the envelope the response handlers receive and the call
\* resolves with is the descriptor the request interceptors left, with url the
\* url fetch was given.
C8_EnvelopeConfigResolved ==
  \A c \in CallIds :
    /\ \A j \in 1..Len(trace[c]) :
         trace[c][j].ev = "response.done" => IsResolved(c, trace[c][j].seen.config)
    /\ pc[c] = "resolved" => IsResolved(c, settled[c].value.config)

\* A resolved call on an instance with a base url: a request interceptor added
\* a header, a response handler saw it, and the url is the composed one.
C8_Witness ==
  \E c \in CallIds :
    /\ pc[c] = "resolved"
    /\ "baseURL" \in DOMAIN defaults[inst[c]]
    /\ \E j \in 1..Len(trace[c]) :
         trace[c][j].ev = "request.done" /\ trace[c][j].kind = "setHeader"
    /\ \E j \in 1..Len(trace[c]) :
         /\ trace[c][j].ev = "response.done"
         /\ "X-Test" \in DOMAIN trace[c][j].seen.config.headers
    /\ settled[c].value.config.headers["X-Test"] = "zodaxios"
    /\ settled[c].value.config.url = fetched[c].url
    /\ settled[c].value.config.url # <<"/", "a">>

\* The header map of an object, empty when it has none.
HeadersOf(o) == IF "headers" \in DOMAIN o THEN o.headers ELSE EmptyObj

\* C9: the headers given to fetch hold every default header whose key the call
\* site does not give, and the call site's value for every key it gives.
C9_DefaultHeadersKept ==
  \A c \in CallIds :
    fetched[c].called =>
      LET D == HeadersOf(defaults[inst[c]])
          C == HeadersOf(CallSite(c))
      IN /\ \A k \in DOMAIN D \ DOMAIN C :
              k \in DOMAIN fetched[c].headers /\ fetched[c].headers[k] = D[k]
         /\ \A k \in DOMAIN C :
              k \in DOMAIN fetched[c].headers /\ fetched[c].headers[k] = C[k]

\* The text holds two slashes in a row.
HasSlashSlash(u) == \E j \in 1..(Len(u) - 1) : u[j] = "/" /\ u[j + 1] = "/"

\* The text without its leading slash.
StripSlash(u) == IF u # <<>> /\ u[1] = "/" THEN Tail(u) ELSE u

\* The url a call was given.
UrlOf(c) ==
  IF args[c].configOrUrl.t = "string" THEN args[c].configOrUrl.v ELSE CallSite(c).url

\* A call that reached fetch on an instance with a base url, with no params.
BaseJoined(c) ==
  /\ fetched[c].called
  /\ "params" \notin DOMAIN CallSite(c)
  /\ "baseURL" \in DOMAIN defaults[inst[c]]
  /\ defaults[inst[c]].baseURL # <<>>

\* C10: with a non-empty baseURL, a url without `//` is fetched as baseURL, one
\* `/`, and the url without its leading `/`; a url with `//` is fetched
\* unchanged.
C10_BaseJoin ==
  \A c \in CallIds :
    BaseJoined(c) =>
      fetched[c].url = IF HasSlashSlash(UrlOf(c)) THEN UrlOf(c)
                       ELSE defaults[inst[c]].baseURL \o <<"/">> \o StripSlash(UrlOf(c))

\* The text holds none of the characters in cs.
Without(u, cs) == \A j \in 1..Len(u) : u[j] \notin cs

\* The same join, for urls on one line and base urls without `$`.
BaseJoinOnOneLine ==
  \A c \in CallIds :
    (BaseJoined(c) /\ Without(UrlOf(c), LineTerminators)
                   /\ Without(defaults[inst[c]].baseURL, {"$"})) =>
      fetched[c].url = IF HasSlashSlash(UrlOf(c)) THEN UrlOf(c)
                       ELSE defaults[inst[c]].baseURL \o <<"/">> \o StripSlash(UrlOf(c))

\* The query text of the params the calls give: k=v, and k=v&q=a%2F.
ExpectedQuery(params) ==
  IF params.kind = "record" THEN <<"k", "=", "v">>
  ELSE <<"k", "=", "v", "&", "q", "=", "a", "%", "2", "F">>

\* The text ends with the given end.
EndsWith(u, end) ==
  Len(u) >= Len(end) /\ SubSeq(u, Len(u) - Len(end) + 1, Len(u)) = end

\* C11: with params, the url given to fetch is the composed url, then `?` when
\* the composed url has no `?` and `&` when it has one, then the serialized
\* params; the url the call gave, with the query it had, is still in it.
C11_ParamsAppended ==
  \A c \in CallIds :
    (fetched[c].called /\ "params" \in DOMAIN CallSite(c)) =>
      LET query == ExpectedQuery(CallSite(c).params)
          final == fetched[c].url
          composed == SubSeq(final, 1, Len(final) - Len(query) - 1)
          sep == IF \E j \in 1..Len(composed) : composed[j] = "?" THEN "&" ELSE "?"
      IN /\ Len(final) > Len(query)
         /\ EndsWith(final, <<sep>> \o query)
         /\ EndsWith(composed, StripSlash(UrlOf(c)))

\* A url that has a query already, composed with the base url, and a
\* URLSearchParams of two pairs appended to it with `&`.
C11_Witness ==
  \E c \in CallIds :
    /\ fetched[c].called
    /\ "params" \in DOMAIN CallSite(c)
    /\ CallSite(c).params.kind = "URLSearchParams"
    /\ UrlOf(c) = <<"a", "?", "a">>
    /\ fetched[c].url = <<"b", "/", "a", "?", "a", "&", "k", "=", "v", "&",
                          "q", "=", "a", "%", "2", "F">>

\* The method of the request: the verb of the method called, else the `method`
\* of the descriptor.
RequestMethod(c) ==
  IF args[c].method # Undefined THEN args[c].method
  ELSE IF "method" \in DOMAIN CallSite(c) THEN CallSite(c).method ELSE Undefined

\* The method fetch uses: GET when it is given none.
Effective(method) == IF method = Undefined THEN "get" ELSE method

\* C12: fetch is given the method of the request: the verb of the method
\* called, with the data as body for post, patch and put and no body for get
\* and delete, and the descriptor's `method` for a direct call.
C12_MethodPassed ==
  \A c \in CallIds :
    fetched[c].called =>
      /\ Effective(fetched[c].method) = Effective(RequestMethod(c))
      /\ args[c].method \in {"get", "delete"} => fetched[c].body = NoBody
      /\ args[c].method \in {"post", "patch", "put"} =>
           (fetched[c].body = NoBody <=> args[c].body = NoBody)

\* The same, for the verb methods alone.
VerbMethodPassed ==
  \A c \in CallIds :
    (fetched[c].called /\ args[c].method # Undefined) =>
      /\ fetched[c].method = args[c].method
      /\ args[c].method \in {"get", "delete"} => fetched[c].body = NoBody
      /\ args[c].method \in {"post", "patch", "put"} =>
           (fetched[c].body = NoBody <=> args[c].body = NoBody)

\* The body reader of the call failed.
BodyFailed(c) == Events(c, "body") # <<>> /\ ~Events(c, "body")[1].read

\* A response handler of the call threw.
ResponseThrew(c) ==
  \E j \in 1..Len(trace[c]) :
    trace[c][j].ev = "response.done" /\ trace[c][j].kind = "throw"

\* The data the response handlers of the call left: the body reader's when none
\* ran.
LeftData(c) ==
  LET ran == Events(c, "response.done")
  IN IF ran = <<>> THEN Events(c, "body")[1].value ELSE LeftBy(ran[Len(ran)])

\* The call rejected, and with what the validator gave: its failure, or the
\* rejection of its promise.
ValidatorRejected(c) ==
  /\ settled[c].state = "rejected"
  /\ \/ settled[c].value.name = "ZodaxiosError"
     \/ settled[c].value.message = "validator rejected"

\* C13 as stated: after a failed body reader a call without schema resolves
\* with data absent, and a call with a schema has the validator run on the
\* absent value and rejects only if the validator fails.
C13_AsStated ==
  \A c \in CallIds :
    BodyFailed(c) =>
      IF "schema" \notin DOMAIN CallSite(c)
      THEN pc[c] = "resolved" /\ settled[c].value.data = Undefined
      ELSE /\ Events(c, "validate") # <<>>
           /\ Events(c, "validate")[1].data = Undefined
           /\ pc[c] = "rejected" => ValidatorRejected(c)

\* C13 as amended: a failed body reader is never the rejection. The response
\* handlers run on the envelope with data absent; when one throws, what it
\* threw is the rejection; else a call without schema resolves with the data
\* as the handlers left it, and a call with a schema has the validator run on
\* that data and rejects only if the validator fails.
C13_BodyFailureSwallowed ==
  \A c \in CallIds :
    BodyFailed(c) =>
      /\ Events(c, "body")[1].value = Undefined
      /\ Events(c, "response.done") # <<>> =>
           Events(c, "response.done")[1].seen.data = Undefined
      /\ IF ResponseThrew(c)
         THEN /\ pc[c] = "rejected"
              /\ settled[c].value.message = "handler threw"
              /\ Events(c, "validate") = <<>>
         ELSE IF "schema" \notin DOMAIN CallSite(c)
         THEN pc[c] = "resolved" /\ settled[c].value.data = LeftData(c)
         ELSE /\ Events(c, "validate") # <<>>
              /\ Events(c, "validate")[1].data = LeftData(c)
              /\ pc[c] = "rejected" => ValidatorRejected(c)

\* The json body could not be parsed, a response handler saw the envelope
\* without data, and the validator refused the absent value.
C13_Witness ==
  \E c \in CallIds :
    /\ BodyFailed(c)
    /\ "schema" \in DOMAIN CallSite(c)
    /\ Events(c, "response.done") # <<>>
    /\ Answered(c) /\ ~Answer(c).success
    /\ Validated(c) = Undefined
    /\ settled[c].state = "rejected"
    /\ settled[c].value.name = "ZodaxiosError"
    /\ settled[c].value.data = Undefined

\* A step that changes the registries of one instance leaves those of every
\* other instance as they were.
OtherRegistriesKept ==
  \A i \in InstIds :
    handlers'[i] # handlers[i] => \A j \in InstIds \ {i} : handlers'[j] = handlers[j]

\* What fetch is given comes from the defaults of the instance called alone:
\* its base url before the url, and its headers.
OwnDefaultsApplied ==
  \A c \in CallIds :
    fetched[c].called =>
      LET d == defaults[inst[c]]
          own == HeadersOf(d)
      IN /\ fetched[c].url = IF "baseURL" \in DOMAIN d
                             THEN d.baseURL \o <<"/">> \o StripSlash(UrlOf(c))
                             ELSE UrlOf(c)
         /\ DOMAIN own \subseteq DOMAIN fetched[c].headers
         /\ DOMAIN fetched[c].headers \subseteq DOMAIN own \cup {"X-Test"}
         /\ \A k \in DOMAIN own : fetched[c].headers[k] = own[k]

\* C14: instances share no state. `use` and `eject` on a registry of one
\* instance change no registry of another, a call runs the handlers registered
\* and not ejected on its own instance and no other, and it gets the defaults of
\* its own instance and no other.
C14_InstancesIndependent ==
  /\ []OwnDefaultsApplied
  /\ [][OtherRegistriesKept /\ OnlyStandingRun /\ AllStandingRun]_vars

\* Instance 1 has a request and a response handler, instance 2 has none and
\* other defaults; a call on instance 2 resolved having run no handler, with
\* the base url of instance 2.
C14_Witness ==
  \E c \in CallIds :
    /\ pc[c] = "resolved" /\ inst[c] = 2
    /\ Live(handlers[1].request) # {} /\ Live(handlers[1].response) # {}
    /\ handlers[2].request = <<>> /\ handlers[2].response = <<>>
    /\ Events(c, "request.done") = <<>> /\ Events(c, "response.done") = <<>>
    /\ defaults[2] # EmptyObj
    /\ fetched[c].url = <<"c", "/", "a">>
    /\ DOMAIN fetched[c].headers = {"C"}

\* What the call site asks of a status: its validateStatus when it gave one,
\* 200 through 299 otherwise.
Accepted(c) ==
  IF "validateStatus" \in DOMAIN CallSite(c)
  THEN res[c].status \in CallSite(c).validateStatus
  ELSE res[c].status >= 200 /\ res[c].status <= 299

\* The call went on to read the body.
TookSuccessPath(c) == pc[c] = "reading" \/ Events(c, "body") # <<>>

\* C15: a call with validateStatus is classified by validateStatus alone, a call
\* without it succeeds exactly on the statuses 200 through 299: an accepted
\* status goes on to the body reader, any other is rejected with the response.
C15_StatusClassification ==
  \A c \in CallIds :
    res[c].received =>
      /\ Accepted(c) <=> TookSuccessPath(c)
      /\ ~Accepted(c) <=> StatusRejection(c) /\ Events(c, "body") = <<>>

\* One call was rejected on 200 because its validateStatus refuses it, and
\* another resolved on 300 because its validateStatus accepts it.
C15_Witness ==
  \E c, d \in CallIds :
    /\ res[c].received /\ res[d].received
    /\ "validateStatus" \in DOMAIN CallSite(c) /\ "validateStatus" \in DOMAIN CallSite(d)
    /\ res[c].status = 200 /\ pc[c] = "rejected" /\ StatusRejection(c)
    /\ res[d].status = 300 /\ pc[d] = "resolved"

\* The call has no schema and no validateStatus, its transport answered with a
\* status in 200..299, its body reader produced a value, and it resolved.
PlainSuccess(c) ==
  /\ pc[c] = "resolved"
  /\ "schema" \notin DOMAIN CallSite(c)
  /\ "validateStatus" \notin DOMAIN CallSite(c)
  /\ res[c].status >= 200 /\ res[c].status <= 299
  /\ Events(c, "body") # <<>> /\ Events(c, "body")[1].read

\* A response handler of the call replaced the data.
DataReplaced(c) ==
  \E j \in 1..Len(trace[c]) :
    trace[c][j].ev = "response.done" /\ trace[c][j].kind = "setData"

\* C16 as stated: whatever the response registry holds, a call without schema
\* answered with a status in 200..299 resolves with the data its body reader
\* produced.
C16_AsStated ==
  \A c \in CallIds :
    PlainSuccess(c) => settled[c].value.data = Events(c, "body")[1].value

\* C16 as amended: a call without schema answered with a status in 200..299
\* resolves with the value its body reader produced (the parsed json, or the
\* raw text for `text`) when no response handler replaced the data, and with the
\* data the last response handler returned otherwise.
C16_DataIsBody ==
  \A c \in CallIds :
    PlainSuccess(c) =>
      /\ Events(c, "body")[1].reader = responseType[c]
      /\ Events(c, "body")[1].value \in BodyValues(responseType[c])
      /\ settled[c].value.data = LeftData(c)
      /\ ~DataReplaced(c) => settled[c].value.data = Events(c, "body")[1].value

\* A `text` call resolved with the raw text after a response handler that
\* returned its envelope as it was.
C16_Witness ==
  \E c \in CallIds :
    /\ PlainSuccess(c)
    /\ responseType[c] = "text"
    /\ Events(c, "response.done") # <<>>
    /\ ~DataReplaced(c)
    /\ settled[c].value.data = "raw-text"

\* The handlers of a registry that stand and have an error hook, in slot order.
ErrorHooksOf(i, p) ==
  SelectSeq(handlers[i][p], LAMBDA h : h.tag = "handler" /\ h.error # "none")

\* The hooks of such a list that get called: all of them up to the first one
\* that throws.
CalledOf(hooks) ==
  LET throwing == {n \in 1..Len(hooks) : hooks[n].error = "throw"}
  IN IF throwing = {} THEN hooks
     ELSE SubSeq(hooks, 1, CHOOSE n \in throwing : \A m \in throwing : n <= m)

\* The error events of one registry among those a step adds to a frame's trace.
AddedErrors(c, p) == SelectSeq(Added(c), LAMBDA e : e.ev = "error" /\ e.phase = p)

\* The rejection is { response }, the envelope being the transport's status and
\* headers, the descriptor the call ran with and no data.
EnvelopeRejection(c) ==
  /\ settled[c].state = "rejected"
  /\ DOMAIN settled[c].value = {"response"}
  /\ settled[c].value.response =
       [config |-> config[c], headers |-> res[c].headers, status |-> res[c].status,
        data |-> Undefined]

\* C17 as stated: on a response that fails classification every standing error
\* hook of the response registry is called, and the call rejects with
\* { response } whatever the hooks do.
C17_AsStated ==
  \A c \in CallIds :
    ClassifiedFailure(c) =>
      /\ {e.uid : e \in {Events(c, "error")[n] : n \in
             {m \in 1..Len(Events(c, "error")) : Events(c, "error")[m].phase = "response"}}}
           = {ErrorHooksOf(inst[c], "response")[n].uid :
                n \in 1..Len(ErrorHooksOf(inst[c], "response"))}
      /\ EnvelopeRejection(c)

\* The step on which the transport's answer fails classification.
FailureStep(c) == pc[c] = "fetching" /\ res'[c].received /\ pc'[c] = "rejected"

\* C17 as amended: a response that fails classification never resolves the call.
\* The standing error hooks of the response registry are called in slot order, up
\* to the first one that throws and no further; when no hook of either registry
\* throws the call rejects with { response } whatever the hooks return, and when
\* one throws the call rejects with what it threw.
C17_ErrorHooksObserve ==
  /\ [](\A c \in CallIds : ClassifiedFailure(c) => pc[c] = "rejected")
  /\ [][\A c \in CallIds :
          FailureStep(c) =>
            LET resp == CalledOf(ErrorHooksOf(inst[c], "response"))
                called == AddedErrors(c, "response")
                threw == \E n \in 1..Len(Added(c)) : Added(c)[n].kind = "throw"
            IN /\ Len(called) = Len(resp)
               /\ \A n \in 1..Len(resp) :
                    called[n].uid = resp[n].uid /\ called[n].kind = resp[n].error
               /\ \A n \in 1..Len(Added(c)) : Added(c)[n].ev = "error"
               /\ IF threw
                  THEN /\ settled'[c].state = "rejected"
                       /\ "response" \notin DOMAIN settled'[c].value
                       /\ settled'[c].value.message = "handler threw"
                  ELSE EnvelopeRejection(c)']_vars

\* A 404 with two error hooks in the response registry: the first returned,
\* the second threw, and what it threw is the rejection.
C17_Witness ==
  \E c \in CallIds :
    /\ ClassifiedFailure(c) /\ res[c].status = 404
    /\ Len(Events(c, "error")) = 2
    /\ Events(c, "error")[1].phase = "response" /\ Events(c, "error")[1].kind = "observe"
    /\ Events(c, "error")[2].phase = "response" /\ Events(c, "error")[2].kind = "throw"
    /\ settled[c].state = "rejected"
    /\ settled[c].value = HandlerError("response", Events(c, "error")[2].slot)

\* The handlers of the request registry that stand, in slot order.
RequestHandlersOf(i) == SelectSeq(handlers[i].request, LAMBDA h : h.tag = "handler")

\* The request.done events among those a step adds to a frame's trace.
AddedRequests(c) == SelectSeq(Added(c), LAMBDA e : e.ev = "request.done")

\* The descriptor after a handler of this kind returned, given the one it
\* received: what it returned, merged key by key over what it received.
MergedAfter(e) ==
  IF e.kind = "setHeader"
  THEN [k \in DOMAIN e.seen \cup {"headers"} |->
          IF k = "headers"
          THEN [h \in DOMAIN HeadersOf(e.seen) \cup {"X-Test"} |->
                  IF h = "X-Test" THEN "zodaxios" ELSE e.seen.headers[h]]
          ELSE e.seen[k]]
  ELSE IF e.kind = "setCredentials"
  THEN [k \in DOMAIN e.seen \cup {"withCredentials"} |->
          IF k = "withCredentials" THEN TRUE ELSE e.seen[k]]
  ELSE IF e.kind = "clearUrl"
  THEN [k \in DOMAIN e.seen \cup {"url"} |-> IF k = "url" THEN <<>> ELSE e.seen[k]]
  ELSE e.seen

\* The step on which a call runs its request handlers and reaches fetch.
DispatchStep(c) == pc[c] = "idle" /\ pc'[c] = "fetching"

Throws(c) ==
  {j \in 1..Len(trace[c]) :
     trace[c][j].ev \in {"request.done", "response.done"} /\ trace[c][j].kind = "throw"}

\* C19: when a done handler of either registry throws, the call rejects with
\* what it threw and nothing of the call runs after it: after a request handler
\* no later request handler and no fetch, after a response handler no later
\* response handler and no validator.
C19_HandlerThrowRejects ==
  \A c \in CallIds : \A j \in Throws(c) :
    /\ j = Len(trace[c])
    /\ pc[c] = "rejected"
    /\ settled[c] = Rejected([name |-> "Error", message |-> "handler threw",
                              by |-> <<PhaseOf(trace[c][j]), trace[c][j].slot>>])
    /\ handlers[inst[c]][PhaseOf(trace[c][j])][trace[c][j].slot + 1].done = "throw"
    /\ trace[c][j].ev = "request.done" =>
         ~fetched[c].called /\ ~res[c].received /\ Events(c, "fetch") = <<>>
    /\ Events(c, "validate") = <<>> /\ Events(c, "parsed") = <<>>

\* A request handler threw with another handler standing after it: the call
\* is rejected with what it threw, the later handler did not run and fetch was
\* not called.
C19_Witness ==
  \E c \in CallIds :
    /\ Throws(c) # {}
    /\ Len(handlers[inst[c]].request) = 2
    /\ handlers[inst[c]].request[1].tag = "handler"
    /\ handlers[inst[c]].request[1].done = "throw"
    /\ handlers[inst[c]].request[2].tag = "handler"
    /\ Events(c, "request.done") = trace[c] /\ Len(trace[c]) = 1
    /\ settled[c].state = "rejected" /\ ~fetched[c].called

\* A request handler of the call returned a descriptor with an empty url.
UrlCleared(c) ==
  \E j \in 1..Len(trace[c]) :
    trace[c][j].ev = "request.done" /\ trace[c][j].kind = "clearUrl"

\* C20: whatever the request handlers return, fetch is given a url that is not
\* empty and comes from a resolved url that is not empty; a call whose url a
\* handler emptied rejects with the 'Missing URL' error and fetch is not called.
C20_UrlNonEmptyAtFetch ==
  \A c \in CallIds :
    /\ fetched[c].called =>
         /\ fetched[c].url # <<>>
         /\ "url" \in DOMAIN config[c] /\ config[c].url # <<>>
         /\ ~UrlCleared(c)
    /\ (UrlCleared(c) /\ Throws(c) = {}) =>
         /\ pc[c] = "rejected"
         /\ settled[c].value = MissingUrlError
         /\ ~fetched[c].called

\* A header name as the transport compares it: without regard to case.
Lower(k) == IF k = "Content-Type" THEN "content-type" ELSE k

\* The content types a header map gives the transport.
ContentTypes(h) == {h[k] : k \in {x \in DOMAIN h : Lower(x) = "content-type"}}

\* C21: an object body goes to fetch as its JSON text, with content type
\* application/json unless the descriptor's headers set a content type, which
\* is then the one fetch is given; any other body, or none, goes to fetch as it
\* is and adds no header.
C21_BodySerialized ==
  \A c \in CallIds :
    fetched[c].called =>
      LET data == args[c].body
          own == HeadersOf(config[c])
      IN IF data.t = "object"
         THEN /\ fetched[c].body = [t |-> "string", v |-> [json |-> data.v]]
              /\ ContentTypes(fetched[c].headers) =
                   IF ContentTypes(own) # {} THEN ContentTypes(own)
                   ELSE {"application/json"}
         ELSE /\ fetched[c].body = data
              /\ fetched[c].headers = own

\* What holds of the body: an object body goes to fetch as its JSON text and
\* application/json is among the content types; any other body, or none, goes
\* to fetch as it is and adds no header.
BodySerializedAndTyped ==
  \A c \in CallIds :
    fetched[c].called =>
      IF args[c].body.t = "object"
      THEN /\ fetched[c].body = [t |-> "string", v |-> [json |-> args[c].body.v]]
           /\ fetched[c].headers["content-type"] = "application/json"
      ELSE /\ fetched[c].body = args[c].body
           /\ fetched[c].headers = HeadersOf(config[c])

\* C24: a response that fails classification rejects the call at once: the body
\* is not read, no done handler of the response registry runs and the validator
\* is not run, schema or not; the envelope of the rejection has no data and the
\* rejection is no ZodaxiosError.
C24_FailureSkipsBody ==
  \A c \in CallIds :
    ClassifiedFailure(c) =>
      /\ pc[c] = "rejected"
      /\ \A j \in 1..Len(trace[c]) :
           trace[c][j].ev \notin {"body", "response.done", "validate", "parsed"}
      /\ response[c].data = Undefined
      /\ "response" \in DOMAIN settled[c].value =>
           settled[c].value.response.data = Undefined
      /\ "name" \in DOMAIN settled[c].value => settled[c].value.name # "ZodaxiosError"

\* A 404 on a json call with a schema, on an instance whose response registry
\* has a standing handler that would set the data: rejected with the envelope,
\* its data absent.
C24_Witness ==
  \E c \in CallIds :
    /\ ClassifiedFailure(c) /\ res[c].status = 404
    /\ "schema" \in DOMAIN CallSite(c) /\ responseType[c] = "json"
    /\ \E k \in Live(handlers[inst[c]].response) :
         handlers[inst[c]].response[k + 1].done = "setData"
    /\ "response" \in DOMAIN settled[c].value
    /\ settled[c].value.response.data = Undefined
    /\ settled[c].value.response.status = 404

\* The rejection the request registry's error hooks are given: a promise
\* rejected with { response }.
RejectionOf(cfg, r) ==
  [state |-> "rejected",
   value |-> [response |-> [config |-> cfg, headers |-> r.headers, status |-> r.status,
                            data |-> Undefined]]]

\* The error hooks a failure calls: those of the response registry, then, when
\* none of them threw, those of the request registry; each list up to its first
\* hook that throws.
HooksCalled(i) ==
  LET resp == CalledOf(ErrorHooksOf(i, "response"))
      threw == resp # <<>> /\ resp[Len(resp)].error = "throw"
  IN [response |-> resp,
      request |-> IF threw THEN <<>> ELSE CalledOf(ErrorHooksOf(i, "request"))]

TransportStep(c) == pc[c] = "fetching" /\ pc'[c] = "rejected" /\ ~res'[c].received

RunsIn(hs) ==
  LET R[k \in 0..(Len(hs) - 1)] ==
        /\ hs[k + 1].tag = "handler"
        /\ \A j \in 0..(k - 1) : ~(R[j] /\ k \in HandlerEjects(hs[j + 1].done))
  IN {k \in 0..(Len(hs) - 1) : R[k]}

\* The events of a registry's done handlers among those a step adds.
AddedDone(c, p) ==
  SelectSeq(Added(c), LAMBDA e : e.ev \in {"request.done", "response.done"} /\ PhaseOf(e) = p)

\* What the done handlers a step ran say of the registry as the step found it:
\* they ran in slot order, each from the slot it stood in; none through a handle
\* that was ejected before, by anyone; they are the slots RunsIn gives; and
\* what they ejected is null afterwards.
ReadsCurrentSlots(c, p) ==
  LET hs == handlers[inst'[c]][p]
      ran == AddedDone(c, p)
  IN /\ \A n \in 1..Len(ran) :
          /\ ran[n].slot < Len(hs)
          /\ hs[ran[n].slot + 1].tag = "handler"
          /\ hs[ran[n].slot + 1].uid = ran[n].uid
          /\ ran[n].slot \notin ejected[inst'[c]][p]
          /\ n < Len(ran) => ran[n].slot < ran[n + 1].slot
          /\ \A id \in HandlerEjects(ran[n].kind) :
               /\ id \in ejected'[inst'[c]][p]
               /\ handlers'[inst'[c]][p][id + 1].tag = "null"
     /\ {ran[n].slot : n \in 1..Len(ran)} = RunsIn(hs)

\* C22: a dispatch reads the registry as it is when the dispatch reaches each
\* slot. A handler ejected before the dispatch, also while the call was waiting
\* for the transport and also by a handler of another call, does not run; a slot
\* that a handler of the same dispatch ejected before the dispatch reached it
\* does not run; every other standing handler runs, in slot order.
C22_DispatchReadsLive ==
  [][\A c \in CallIds :
       /\ DispatchStep(c) => ReadsCurrentSlots(c, "request")
       /\ (pc[c] = "reading" /\ pc'[c] = "resolved") => ReadsCurrentSlots(c, "response")
    ]_vars

\* A call resolved after the handler of slot 0 of the response registry ejected
\* slot 1, whose handler therefore did not run, while another call is waiting
\* for the transport.
C22_Witness ==
  \E c, d \in CallIds :
    /\ c # d /\ pc[c] = "resolved" /\ pc[d] = "fetching"
    /\ Len(issued[1].response) = 2
    /\ issued[1].response[1].handle = 0 /\ issued[1].response[2].handle = 1
    /\ Len(Events(c, "response.done")) = 1
    /\ Events(c, "response.done")[1].slot = 0
    /\ Events(c, "response.done")[1].kind = "eject1"
    /\ handlers[1].response[2].tag = "null"
    /\ ejected[1].response = {1}

\* A request handler of the frame put the test header into its descriptor.
PutTestHeader(c) ==
  \E j \in 1..Len(trace[c]) :
    trace[c][j].ev = "request.done" /\ trace[c][j].kind \in {"putHeader", "setHeader"}

\* The header maps a frame holds: its descriptor's and its envelope's.
HeldHeaders(c) ==
  {HeadersOf(config[c])} \cup
  (IF "config" \in DOMAIN response[c] THEN {HeadersOf(response[c].config)} ELSE {})

\* C23: calls on one instance work on copies of their own. The header a handler
\* of one call puts into that call's descriptor, also by writing into its
\* headers map, is in no descriptor and no envelope of a call whose own handlers
\* did not put it there, and no step changes the defaults of an instance.
C23_CallsIndependent ==
  /\ [](\A c \in CallIds :
          (pc[c] # "idle" /\ ~PutTestHeader(c)) =>
            \A h \in HeldHeaders(c) : "X-Test" \notin DOMAIN h)
  /\ [][defaults' = defaults]_vars

\* What holds when handlers assign a new map and never write into the one that
\* is there: the same, for the frames of an instance whose registry has never
\* held a handler that writes in place.
IndependentUnlessWrittenInPlace ==
  /\ [](\A c \in CallIds :
          (pc[c] # "idle" /\ ~PutTestHeader(c) /\ "X-Test" \notin DOMAIN HeadersOf(defaults[inst[c]])) =>
            \A h \in HeldHeaders(c) : "X-Test" \notin DOMAIN h)
  /\ [][(\A c \in CallIds : \A n \in 1..Len(Added(c)) :
            Added(c)[n].ev = "request.done" => Added(c)[n].kind # "putHeader")
         => defaults' = defaults]_vars

====
